---- MODULE Spec2Model ----
(***************************************************************************)
(* Model of btc-staking-ts: UTXO selection and fee estimation              *)
(* (src/utils/fee.ts), the staking script builder                          *)
(* (src/utils/stakingScript.ts) and the transaction assemblers and the     *)
(* witness composer (src/index.ts).                                        *)
(*                                                                         *)
(* A Buffer is a sequence of bytes (0..255).  Satoshi amounts, fee rates   *)
(* and timelocks are integers.  Every exported function is one action: it  *)
(* draws its arguments from small sets, records them in `call` and its     *)
(* outcome (a returned value or a thrown error) in `ret`.                  *)
(***************************************************************************)
EXTENDS Integers, Sequences, FiniteSets, TLC

VARIABLES
    availableUTXOs,   \* the caller's wallet list handed to UTXO selection
    tx,               \* the prior Transaction handed to the spending assemblers
    hops,             \* how many times the caller extracted a result into tx
    originalWitness,  \* the witness elements of the input being completed
    paramsCovenants,  \* the covenant committee keys of the parameters
    covenantSigs,     \* the covenant signatures collected so far
    scriptData,       \* the fields of the StakingScriptData object in use
    suppliedParams,   \* the constructor arguments as the caller supplied them
    call,             \* the last call: function name and arguments
    ret               \* its outcome: returned value or thrown error

vars == <<availableUTXOs, tx, hops, originalWitness, paramsCovenants,
          covenantSigs, scriptData, suppliedParams, call, ret>>
walletVars == <<availableUTXOs>>
spendVars == <<tx, hops>>
witnessVars == <<originalWitness, paramsCovenants, covenantSigs>>
scriptVars == <<scriptData, suppliedParams>>

(***************************************************************************)
(* Bounds of the model.                                                    *)
(***************************************************************************)
MaxUtxos == 3        \* longest wallet list
MaxFeeRate == 2      \* largest fee rate (sat/byte)
MaxHops == 1         \* unbonding transactions extracted in a row
MaxSmallTimelock == 18   \* timelocks 1..MaxSmallTimelock are all tried
MaxCovenants == 2    \* longest covenant key list handed to createWitness
MaxSigs == 2         \* most covenant signatures collected
MaxFeeCount == 7     \* most inputs and most outputs handed to getEstimatedFee
MaxKeys == 3         \* longest key list handed to buildMultiKeyScript

(***************************************************************************)
(* Program constants.                                                      *)
(***************************************************************************)
INPUT_SIZE_FOR_FEE_CAL == 180
OUTPUT_SIZE_FOR_FEE_CAL == 34
TX_BUFFER_SIZE_FOR_FEE_CAL == 10
ESTIMATED_OP_RETURN_SIZE == 40
BTC_LOCKTIME_HEIGHT_TIME_CUTOFF == 500000000
BTC_DUST_SAT == 546
PK_LENGTH == 32

(***************************************************************************)
(* Generic helpers on sequences.                                           *)
(***************************************************************************)
RECURSIVE SumValues(_)
SumValues(s) == IF s = <<>> THEN 0 ELSE Head(s).value + SumValues(Tail(s))

\* inputValueSum: reduce((acc, utxo) => acc + utxo.value, 0)
inputValueSum(inputUTXOs) == SumValues(inputUTXOs)

\* Insert x into the descending list s behind every element that does not
\* compare after it: comparator (a, b) => b.value - a.value of a stable sort.
RECURSIVE InsertDesc(_, _)
InsertDesc(x, s) ==
    IF s = <<>> THEN <<x>>
    ELSE IF Head(s).value >= x.value THEN <<Head(s)>> \o InsertDesc(x, Tail(s))
    ELSE <<x>> \o s

\* availableUTXOs.sort((a, b) => b.value - a.value): stable, descending.
RECURSIVE SortDescByValue(_)
SortDescByValue(s) ==
    IF s = <<>> THEN <<>>
    ELSE InsertDesc(s[Len(s)], SortDescByValue(SubSeq(s, 1, Len(s) - 1)))

(***************************************************************************)
(* Fee estimation (fee.ts).                                                *)
(***************************************************************************)
Mut_getEstimatedFee_NoInputOverhead(feeRate, numInputs, numOutputs) ==
    (numInputs * INPUT_SIZE_FOR_FEE_CAL
       + numOutputs * OUTPUT_SIZE_FOR_FEE_CAL
       + TX_BUFFER_SIZE_FOR_FEE_CAL + ESTIMATED_OP_RETURN_SIZE) * feeRate

getEstimatedFee(feeRate, numInputs, numOutputs) ==
    (numInputs * INPUT_SIZE_FOR_FEE_CAL
       + numOutputs * OUTPUT_SIZE_FOR_FEE_CAL
       + TX_BUFFER_SIZE_FOR_FEE_CAL + numInputs + ESTIMATED_OP_RETURN_SIZE) * feeRate

\* The selection loop without its break: every UTXO is pushed.
Mut_SelectLoop_NoBreak(sorted, n, acc, stakingAmount, feeRate, numOfOutputs) ==
    Len(sorted)

\* The for loop of getStakingTxInputUTXOsAndFees over the sorted list:
\* push the next UTXO, re-estimate the fee, break once the accumulated value
\* covers amount + fee.  Returns the number of UTXOs pushed.
RECURSIVE SelectLoop(_, _, _, _, _, _)
SelectLoop(sorted, n, acc, stakingAmount, feeRate, numOfOutputs) ==
    IF n = Len(sorted) THEN n
    ELSE LET acc2 == acc + sorted[n + 1].value
             fee2 == getEstimatedFee(feeRate, n + 1, numOfOutputs)
         IN IF acc2 >= stakingAmount + fee2 THEN n + 1
            ELSE SelectLoop(sorted, n + 1, acc2, stakingAmount, feeRate, numOfOutputs)

ErrInsufficientFunds == "Insufficient funds"
ErrUnableFee == "Unable to calculate fee."
ErrInsufficientForFee ==
    "Insufficient funds: unable to gather enough UTXOs to cover the staking amount and fees."

\* getStakingTxInputUTXOsAndFees without the final check that the accumulated
\* value covers amount plus fee.
Mut_getStakingTxInputUTXOsAndFees_NoFinalCheck(utxos, stakingAmount, feeRate, numOfOutputs) ==
    IF Len(utxos) = 0
    THEN [ok |-> FALSE, error |-> ErrInsufficientFunds,
          selectedUTXOs |-> <<>>, fee |-> 0, list |-> utxos]
    ELSE LET sorted == SortDescByValue(utxos)
             k == SelectLoop(sorted, 0, 0, stakingAmount, feeRate, numOfOutputs)
             estimatedFee == getEstimatedFee(feeRate, k, numOfOutputs)
         IN IF estimatedFee = 0
            THEN [ok |-> FALSE, error |-> ErrUnableFee,
                  selectedUTXOs |-> <<>>, fee |-> 0, list |-> sorted]
            ELSE [ok |-> TRUE, error |-> "",
                  selectedUTXOs |-> SubSeq(sorted, 1, k), fee |-> estimatedFee,
                  list |-> sorted]

\* getStakingTxInputUTXOsAndFees without the check for an empty list: the
\* loop never runs and the fee stays undefined.
Mut_getStakingTxInputUTXOsAndFees_NoEmptyCheck(utxos, stakingAmount, feeRate, numOfOutputs) ==
    IF Len(utxos) = 0
    THEN [ok |-> FALSE, error |-> ErrUnableFee,
          selectedUTXOs |-> <<>>, fee |-> 0, list |-> utxos]
    ELSE LET sorted == SortDescByValue(utxos)
             k == SelectLoop(sorted, 0, 0, stakingAmount, feeRate, numOfOutputs)
             estimatedFee == getEstimatedFee(feeRate, k, numOfOutputs)
         IN IF estimatedFee = 0
            THEN [ok |-> FALSE, error |-> ErrUnableFee,
                  selectedUTXOs |-> <<>>, fee |-> 0, list |-> sorted]
            ELSE IF SumValues(SubSeq(sorted, 1, k)) < stakingAmount + estimatedFee
            THEN [ok |-> FALSE, error |-> ErrInsufficientForFee,
                  selectedUTXOs |-> <<>>, fee |-> 0, list |-> sorted]
            ELSE [ok |-> TRUE, error |-> "",
                  selectedUTXOs |-> SubSeq(sorted, 1, k), fee |-> estimatedFee,
                  list |-> sorted]

\* getStakingTxInputUTXOsAndFees: the outcome and the caller's list after
\* the call (the list is sorted in place unless the call throws before).
getStakingTxInputUTXOsAndFees(utxos, stakingAmount, feeRate, numOfOutputs) ==
    IF Len(utxos) = 0
    THEN [ok |-> FALSE, error |-> ErrInsufficientFunds,
          selectedUTXOs |-> <<>>, fee |-> 0, list |-> utxos]
    ELSE LET sorted == SortDescByValue(utxos)
             k == SelectLoop(sorted, 0, 0, stakingAmount, feeRate, numOfOutputs)
             selectedUTXOs == SubSeq(sorted, 1, k)
             accumulatedValue == SumValues(selectedUTXOs)
             estimatedFee == getEstimatedFee(feeRate, k, numOfOutputs)
         IN IF estimatedFee = 0
            THEN [ok |-> FALSE, error |-> ErrUnableFee,
                  selectedUTXOs |-> <<>>, fee |-> 0, list |-> sorted]
            ELSE IF accumulatedValue < stakingAmount + estimatedFee
            THEN [ok |-> FALSE, error |-> ErrInsufficientForFee,
                  selectedUTXOs |-> <<>>, fee |-> 0, list |-> sorted]
            ELSE [ok |-> TRUE, error |-> "",
                  selectedUTXOs |-> selectedUTXOs, fee |-> estimatedFee,
                  list |-> sorted]

(***************************************************************************)
(* Buffers and bitcoin script encoding (bitcoinjs-lib script.compile,      *)
(* script.decompile, script.number.encode/decode as the library computes   *)
(* them).                                                                  *)
(***************************************************************************)
OP_0 == 0
OP_PUSHDATA1 == 76
OP_PUSHDATA2 == 77
OP_PUSHDATA4 == 78
OP_1NEGATE == 79
OP_INT_BASE == 80
OP_VERIFY == 105
OP_RETURN == 106
OP_GREATERTHANOREQUAL == 162
OP_CHECKSIG == 172
OP_CHECKSIGVERIFY == 173
OP_CHECKSEQUENCEVERIFY == 178
OP_CHECKSIGADD == 186

\* A script chunk is an opcode or a data push.
OpChunk(op) == [isOp |-> TRUE, op |-> op, data |-> <<>>]
DataChunk(buf) == [isOp |-> FALSE, op |-> -1, data |-> buf]

\* Buffer.compare: byte-wise lexicographic order, shorter prefix first.
RECURSIVE BufferCompare(_, _)
BufferCompare(a, b) ==
    IF a = <<>> /\ b = <<>> THEN 0
    ELSE IF a = <<>> THEN -1
    ELSE IF b = <<>> THEN 1
    ELSE IF Head(a) < Head(b) THEN -1
    ELSE IF Head(a) > Head(b) THEN 1
    ELSE BufferCompare(Tail(a), Tail(b))

\* asMinimalOP: the opcode that pushes this data, or -1 (undefined).
asMinimalOP(buffer) ==
    IF Len(buffer) = 0 THEN OP_0
    ELSE IF Len(buffer) # 1 THEN -1
    ELSE IF buffer[1] >= 1 /\ buffer[1] <= 16 THEN OP_INT_BASE + buffer[1]
    ELSE IF buffer[1] = 129 THEN OP_1NEGATE
    ELSE -1

\* pushdata.encode: the length prefix of a data push.
PushDataPrefix(len) ==
    IF len < OP_PUSHDATA1 THEN <<len>>
    ELSE IF len <= 255 THEN <<OP_PUSHDATA1, len>>
    ELSE <<OP_PUSHDATA2, len % 256, len \div 256>>

CompileChunk(chunk) ==
    IF chunk.isOp THEN <<chunk.op>>
    ELSE IF asMinimalOP(chunk.data) # -1 THEN <<asMinimalOP(chunk.data)>>
    ELSE PushDataPrefix(Len(chunk.data)) \o chunk.data

\* script.compile(chunks)
RECURSIVE compile(_)
compile(chunks) ==
    IF chunks = <<>> THEN <<>>
    ELSE CompileChunk(Head(chunks)) \o compile(Tail(chunks))

\* pushdata.decode at 1-based position i: [ok, number (data length), size
\* (prefix length)]; not ok when the prefix runs past the buffer.
PushDataDecode(buffer, i) ==
    LET opcode == buffer[i] IN
    IF opcode < OP_PUSHDATA1 THEN [ok |-> TRUE, number |-> opcode, size |-> 1]
    ELSE IF opcode = OP_PUSHDATA1
    THEN IF i + 1 > Len(buffer) THEN [ok |-> FALSE, number |-> 0, size |-> 0]
         ELSE [ok |-> TRUE, number |-> buffer[i + 1], size |-> 2]
    ELSE IF opcode = OP_PUSHDATA2
    THEN IF i + 2 > Len(buffer) THEN [ok |-> FALSE, number |-> 0, size |-> 0]
         ELSE [ok |-> TRUE, number |-> buffer[i + 1] + 256 * buffer[i + 2], size |-> 3]
    ELSE IF i + 4 > Len(buffer) THEN [ok |-> FALSE, number |-> 0, size |-> 0]
         ELSE [ok |-> TRUE,
               number |-> buffer[i + 1] + 256 * buffer[i + 2]
                          + 65536 * buffer[i + 3] + 16777216 * buffer[i + 4],
               size |-> 5]

\* script.decompile(buffer) from 1-based position i: [ok, chunks]; not ok is
\* the library's null.
RECURSIVE DecompileFrom(_, _)
DecompileFrom(buffer, i) ==
    IF i > Len(buffer) THEN [ok |-> TRUE, chunks |-> <<>>]
    ELSE LET opcode == buffer[i] IN
         IF opcode > OP_0 /\ opcode <= OP_PUSHDATA4
         THEN LET d == PushDataDecode(buffer, i) IN
              IF ~d.ok THEN [ok |-> FALSE, chunks |-> <<>>]
              ELSE IF i + d.size + d.number - 1 > Len(buffer)
              THEN [ok |-> FALSE, chunks |-> <<>>]
              ELSE LET data == SubSeq(buffer, i + d.size, i + d.size + d.number - 1)
                       op == asMinimalOP(data)
                       rest == DecompileFrom(buffer, i + d.size + d.number)
                       chunk == IF op # -1 THEN OpChunk(op) ELSE DataChunk(data)
                   IN IF rest.ok
                      THEN [ok |-> TRUE, chunks |-> <<chunk>> \o rest.chunks]
                      ELSE rest
         ELSE LET rest == DecompileFrom(buffer, i + 1) IN
              IF rest.ok
              THEN [ok |-> TRUE, chunks |-> <<OpChunk(opcode)>> \o rest.chunks]
              ELSE rest

decompile(buffer) == DecompileFrom(buffer, 1)

\* scriptNumSize
scriptNumSize(i) ==
    IF i > 2147483647 THEN 5
    ELSE IF i > 8388607 THEN 4
    ELSE IF i > 32767 THEN 3
    ELSE IF i > 127 THEN 2
    ELSE IF i > 0 THEN 1
    ELSE 0

RECURSIVE LittleEndian(_, _)
LittleEndian(value, size) ==
    IF size = 0 THEN <<>>
    ELSE <<value % 256>> \o LittleEndian(value \div 256, size - 1)

\* script.number.encode(_number)
ScriptNumEncode(number) ==
    LET value == IF number < 0 THEN -number ELSE number
        size == scriptNumSize(value)
        buffer == LittleEndian(value, size)
    IN IF size = 0 THEN <<>>
       ELSE IF buffer[size] >= 128
       THEN [buffer EXCEPT ![size] = IF number < 0 THEN 128 ELSE 0]
       ELSE IF number < 0
       THEN [buffer EXCEPT ![size] = buffer[size] + 128]
       ELSE buffer

RECURSIVE FromLittleEndian(_)
FromLittleEndian(buffer) ==
    IF buffer = <<>> THEN 0
    ELSE Head(buffer) + 256 * FromLittleEndian(Tail(buffer))

\* script.number.decode(buffer) with maxLength 4 and minimal encoding
\* required: [ok, value]; not ok is a thrown error.
ScriptNumDecode(buffer) ==
    LET length == Len(buffer) IN
    IF length = 0 THEN [ok |-> TRUE, value |-> 0]
    ELSE IF length > 4 THEN [ok |-> FALSE, value |-> 0]
    ELSE IF buffer[length] % 128 = 0
            /\ (length <= 1 \/ buffer[length - 1] < 128)
    THEN [ok |-> FALSE, value |-> 0]
    ELSE IF buffer[length] >= 128
    THEN [ok |-> TRUE,
          value |-> -FromLittleEndian([buffer EXCEPT ![length] = buffer[length] - 128])]
    ELSE [ok |-> TRUE, value |-> FromLittleEndian(buffer)]


(***************************************************************************)
(* Staking scripts (stakingScript.ts).                                     *)
(***************************************************************************)
\* A 32-byte x-only key that differs from the others in its first and last
\* byte.
Key(first, last) ==
    [i \in 1..PK_LENGTH |-> IF i = 1 THEN first ELSE IF i = PK_LENGTH THEN last ELSE 0]

\* StakingScriptData.buildTimelockScript
buildTimelockScript(stakerKey, timelock) ==
    compile(<<DataChunk(stakerKey), OpChunk(OP_CHECKSIGVERIFY),
              DataChunk(ScriptNumEncode(timelock)), OpChunk(OP_CHECKSEQUENCEVERIFY)>>)

\* StakingScriptData.buildSingleKeyScript
buildSingleKeyScript(pk, withVerify) ==
    compile(<<DataChunk(pk),
              OpChunk(IF withVerify THEN OP_CHECKSIGVERIFY ELSE OP_CHECKSIG)>>)

\* pks.sort(Buffer.compare): ascending byte order.
RECURSIVE InsertAsc(_, _)
InsertAsc(x, s) ==
    IF s = <<>> THEN <<x>>
    ELSE IF BufferCompare(Head(s), x) <= 0 THEN <<Head(s)>> \o InsertAsc(x, Tail(s))
    ELSE <<x>> \o s

Mut_SortBuffers_KeepOrder(s) == s

RECURSIVE SortBuffers(_)
SortBuffers(s) ==
    IF s = <<>> THEN <<>>
    ELSE InsertAsc(s[Len(s)], SortBuffers(SubSeq(s, 1, Len(s) - 1)))

RECURSIVE MultiKeyElements(_, _)
MultiKeyElements(sortedPks, i) ==
    IF i > Len(sortedPks) THEN <<>>
    ELSE <<DataChunk(sortedPks[i]), OpChunk(OP_CHECKSIGADD)>>
         \o MultiKeyElements(sortedPks, i + 1)

\* StakingScriptData.buildMultiKeyScript: [ok, error, script, pks].  The
\* sort is Array.prototype.sort on the caller's array, so pks is the array
\* as the call leaves it, whether it returns or throws.
Mut_buildMultiKeyScript_NoDuplicateCheck(pks, threshold, withVerify) ==
    IF Len(pks) = 0
    THEN [ok |-> FALSE, error |-> "No keys provided", script |-> <<>>, pks |-> pks]
    ELSE IF threshold > Len(pks)
    THEN [ok |-> FALSE,
          error |-> "Required number of valid signers is greater than number of provided keys",
          script |-> <<>>, pks |-> pks]
    ELSE IF Len(pks) = 1
    THEN [ok |-> TRUE, error |-> "", script |-> buildSingleKeyScript(pks[1], withVerify),
          pks |-> pks]
    ELSE LET sortedPks == SortBuffers(pks) IN
         [ok |-> TRUE, error |-> "",
          script |-> compile(
              <<DataChunk(sortedPks[1]), OpChunk(OP_CHECKSIG)>>
              \o MultiKeyElements(sortedPks, 2)
              \o <<DataChunk(ScriptNumEncode(threshold)),
                   OpChunk(OP_GREATERTHANOREQUAL)>>
              \o (IF withVerify THEN <<OpChunk(OP_VERIFY)>> ELSE <<>>)),
          pks |-> sortedPks]

buildMultiKeyScript(pks, threshold, withVerify) ==
    IF Len(pks) = 0
    THEN [ok |-> FALSE, error |-> "No keys provided", script |-> <<>>, pks |-> pks]
    ELSE IF threshold > Len(pks)
    THEN [ok |-> FALSE,
          error |-> "Required number of valid signers is greater than number of provided keys",
          script |-> <<>>, pks |-> pks]
    ELSE IF Len(pks) = 1
    THEN [ok |-> TRUE, error |-> "", script |-> buildSingleKeyScript(pks[1], withVerify),
          pks |-> pks]
    ELSE LET sortedPks == SortBuffers(pks) IN
         IF \E i \in 1..(Len(sortedPks) - 1) : sortedPks[i] = sortedPks[i + 1]
         THEN [ok |-> FALSE, error |-> "Duplicate keys provided", script |-> <<>>,
               pks |-> sortedPks]
         ELSE [ok |-> TRUE, error |-> "",
               script |-> compile(
                   <<DataChunk(sortedPks[1]), OpChunk(OP_CHECKSIG)>>
                   \o MultiKeyElements(sortedPks, 2)
                   \o <<DataChunk(ScriptNumEncode(threshold)),
                        OpChunk(OP_GREATERTHANOREQUAL)>>
                   \o (IF withVerify THEN <<OpChunk(OP_VERIFY)>> ELSE <<>>)),
               pks |-> sortedPks]

\* The methods below take the object's fields d and return, next to their
\* outcome, the fields as the call leaves them (data): the key lists are
\* the arrays buildMultiKeyScript sorts.

\* StakingScriptData.buildUnbondingScript: [ok, error, script, data].
buildUnbondingScript(d) ==
    LET multi == buildMultiKeyScript(d.covenantKeys, d.covenantThreshold, FALSE)
        after == [d EXCEPT !.covenantKeys = multi.pks]
    IN IF ~multi.ok
       THEN [ok |-> FALSE, error |-> multi.error, script |-> <<>>, data |-> after]
       ELSE [ok |-> TRUE, error |-> "",
             script |-> buildSingleKeyScript(d.stakerKey, TRUE) \o multi.script,
             data |-> after]

\* StakingScriptData.buildSlashingScript: [ok, error, script, data].
buildSlashingScript(d) ==
    LET fps == buildMultiKeyScript(d.finalityProviderKeys, 1, TRUE)
        afterFps == [d EXCEPT !.finalityProviderKeys = fps.pks]
        covs == buildMultiKeyScript(d.covenantKeys, d.covenantThreshold, FALSE)
        afterCovs == [afterFps EXCEPT !.covenantKeys = covs.pks]
    IN IF ~fps.ok
       THEN [ok |-> FALSE, error |-> fps.error, script |-> <<>>, data |-> afterFps]
       ELSE IF ~covs.ok
       THEN [ok |-> FALSE, error |-> covs.error, script |-> <<>>, data |-> afterCovs]
       ELSE [ok |-> TRUE, error |-> "",
             script |-> buildSingleKeyScript(d.stakerKey, TRUE)
                        \o fps.script \o covs.script,
             data |-> afterCovs]

\* StakingScriptData.buildDataEmbedScript: [ok, error, script, data].
\* writeUInt16BE throws outside 0..65535; Buffer.concat throws on the
\* undefined first element of an empty key list.
buildDataEmbedScript(d) ==
    IF d.stakingTimeLock < 0 \/ d.stakingTimeLock > 65535
    THEN [ok |-> FALSE, error |-> "ERR_OUT_OF_RANGE", script |-> <<>>, data |-> d]
    ELSE IF Len(d.finalityProviderKeys) = 0
    THEN [ok |-> FALSE, error |-> "TypeError", script |-> <<>>, data |-> d]
    ELSE [ok |-> TRUE, error |-> "",
          script |-> compile(
              <<OpChunk(OP_RETURN),
                DataChunk(d.magicBytes \o <<0>> \o d.stakerKey
                          \o d.finalityProviderKeys[1]
                          \o <<d.stakingTimeLock \div 256, d.stakingTimeLock % 256>>)>>),
          data |-> d]

NoScripts ==
    [timelockScript |-> <<>>, unbondingScript |-> <<>>, slashingScript |-> <<>>,
     unbondingTimelockScript |-> <<>>, dataEmbedScript |-> <<>>]

\* StakingScriptData.buildScripts: [ok, error, scripts, data].  The five
\* property values are evaluated in source order, each on the object as the
\* one before left it.
Mut_buildScripts_DataEmbedFirst(d) ==
    LET unbonding == buildUnbondingScript(d)
        slashing == buildSlashingScript(unbonding.data)
        dataEmbed == buildDataEmbedScript(d)
    IN IF ~unbonding.ok
       THEN [ok |-> FALSE, error |-> unbonding.error, scripts |-> NoScripts,
             data |-> unbonding.data]
       ELSE IF ~slashing.ok
       THEN [ok |-> FALSE, error |-> slashing.error, scripts |-> NoScripts,
             data |-> slashing.data]
       ELSE IF ~dataEmbed.ok
       THEN [ok |-> FALSE, error |-> dataEmbed.error, scripts |-> NoScripts,
             data |-> slashing.data]
       ELSE [ok |-> TRUE, error |-> "",
             scripts |->
               [timelockScript |-> buildTimelockScript(d.stakerKey, d.stakingTimeLock),
                unbondingScript |-> unbonding.script,
                slashingScript |-> slashing.script,
                unbondingTimelockScript |->
                    buildTimelockScript(d.stakerKey, d.unbondingTimeLock),
                dataEmbedScript |-> dataEmbed.script],
             data |-> slashing.data]

buildScripts(d) ==
    LET unbonding == buildUnbondingScript(d)
        slashing == buildSlashingScript(unbonding.data)
        dataEmbed == buildDataEmbedScript(slashing.data)
    IN IF ~unbonding.ok
       THEN [ok |-> FALSE, error |-> unbonding.error, scripts |-> NoScripts,
             data |-> unbonding.data]
       ELSE IF ~slashing.ok
       THEN [ok |-> FALSE, error |-> slashing.error, scripts |-> NoScripts,
             data |-> slashing.data]
       ELSE IF ~dataEmbed.ok
       THEN [ok |-> FALSE, error |-> dataEmbed.error, scripts |-> NoScripts,
             data |-> slashing.data]
       ELSE [ok |-> TRUE, error |-> "",
             scripts |->
               [timelockScript |-> buildTimelockScript(d.stakerKey, d.stakingTimeLock),
                unbondingScript |-> unbonding.script,
                slashingScript |-> slashing.script,
                unbondingTimelockScript |->
                    buildTimelockScript(d.stakerKey, d.unbondingTimeLock),
                dataEmbedScript |-> dataEmbed.script],
             data |-> slashing.data]

\* StakingScriptData.validate: TRUE iff every key is 32 bytes long and the
\* staking timelock fits 16 bits.
validate(d) ==
    IF Len(d.stakerKey) # PK_LENGTH THEN FALSE
    ELSE IF \E i \in 1..Len(d.finalityProviderKeys) :
               Len(d.finalityProviderKeys[i]) # PK_LENGTH
    THEN FALSE
    ELSE IF \E i \in 1..Len(d.covenantKeys) : Len(d.covenantKeys[i]) # PK_LENGTH
    THEN FALSE
    ELSE IF d.stakingTimeLock > 65535 THEN FALSE
    ELSE TRUE

\* new StakingScriptData(...): the constructor stores its arguments.
StakingScriptData(stakerKey, finalityProviderKeys, covenantKeys, covenantThreshold, stakingTimelock, unbondingTimelock, magicBytes) ==
    [stakerKey |-> stakerKey, finalityProviderKeys |-> finalityProviderKeys,
     covenantKeys |-> covenantKeys, covenantThreshold |-> covenantThreshold,
     stakingTimeLock |-> stakingTimelock, unbondingTimeLock |-> unbondingTimelock,
     magicBytes |-> magicBytes]

(***************************************************************************)
(* Taproot outputs (payments.p2tr).  The tagged hashes and the key tweak   *)
(* are collision free, so an address is identified by the internal key and *)
(* the script tree it commits to, and a control block by the internal key  *)
(* and the siblings on the path from the leaf to the root.                 *)
(***************************************************************************)
internalPubkey ==
    <<80, 146, 155, 116, 193, 160, 73, 84, 183, 139, 75, 96, 53, 233, 122, 94,
      7, 138, 90, 15, 40, 236, 150, 213, 71, 191, 238, 154, 206, 128, 58, 192>>

Leaf(script) == [isLeaf |-> TRUE, output |-> script]
Node(left, right) == [isLeaf |-> FALSE, left |-> left, right |-> right]

\* [slashing, [unbonding, timelock]]: the tree of the staking output.
StakingTree(slashingScript, unbondingScript, timelockScript) ==
    Node(Leaf(slashingScript), Node(Leaf(unbondingScript), Leaf(timelockScript)))

\* [slashing, unbondingTimelock]: the tree of the unbonding output.
UnbondingTree(slashingScript, unbondingTimelockScript) ==
    Node(Leaf(slashingScript), Leaf(unbondingTimelockScript))

P2trAddress(pubkey, scriptTree) ==
    [type |-> "p2tr", internalPubkey |-> pubkey, scriptTree |-> scriptTree]

\* findScriptPath: the sibling subtrees from the leaf up to the root; found
\* is FALSE when the script is not a leaf of the tree.
RECURSIVE ScriptPath(_, _)
ScriptPath(tree, script) ==
    IF tree.isLeaf
    THEN [found |-> tree.output = script, path |-> <<>>]
    ELSE LET l == ScriptPath(tree.left, script)
             r == ScriptPath(tree.right, script)
         IN IF l.found THEN [found |-> TRUE, path |-> l.path \o <<tree.right>>]
            ELSE IF r.found THEN [found |-> TRUE, path |-> r.path \o <<tree.left>>]
            ELSE [found |-> FALSE, path |-> <<>>]

\* p2tr.witness[last]: the control block of the redeem script.
ControlBlock(pubkey, scriptTree, redeemScript) ==
    [internalPubkey |-> pubkey, path |-> ScriptPath(scriptTree, redeemScript).path]


(***************************************************************************)
(* Hex strings and PSBT building blocks.                                   *)
(***************************************************************************)
\* The value of one hex digit, or -1 for any other character.
HexDigit(c) ==
    CASE c = "0" -> 0 [] c = "1" -> 1 [] c = "2" -> 2 [] c = "3" -> 3
      [] c = "4" -> 4 [] c = "5" -> 5 [] c = "6" -> 6 [] c = "7" -> 7
      [] c = "8" -> 8 [] c = "9" -> 9
      [] c = "a" -> 10 [] c = "b" -> 11 [] c = "c" -> 12
      [] c = "d" -> 13 [] c = "e" -> 14 [] c = "f" -> 15
      [] c = "A" -> 10 [] c = "B" -> 11 [] c = "C" -> 12
      [] c = "D" -> 13 [] c = "E" -> 14 [] c = "F" -> 15
      [] OTHER -> -1

\* Buffer.from(str, "hex"): one byte per pair of hex digits, stopping at the
\* first pair that is not hex; a trailing single character is dropped.
RECURSIVE BufferFromHex(_)
BufferFromHex(str) ==
    IF Len(str) < 2 THEN <<>>
    ELSE IF HexDigit(str[1]) = -1 \/ HexDigit(str[2]) = -1 THEN <<>>
    ELSE <<16 * HexDigit(str[1]) + HexDigit(str[2])>>
         \o BufferFromHex(SubSeq(str, 3, Len(str)))

\* An argument that was not passed (undefined); no Buffer equals it.
Undefined == <<-1>>

\* A uint32 as the four little-endian bytes of the transaction encoding.
UInt32LE(n) == LittleEndian(n, 4)

SEQUENCE_RBF == <<253, 255, 255, 255>>      \* 0xfffffffd
SEQUENCE_FINAL == <<255, 255, 255, 255>>    \* 0xffffffff, the default

\* A wallet address and a string that is no address of the network.
WalletAddress(n) == [type |-> "p2wpkh", hash |-> n]
InvalidAddress == [type |-> "invalid", hash |-> 0]

\* address.toOutputScript(address, network) throws on an invalid address.
IsValidAddress(addr) == addr.type # "invalid"

\* new Psbt({ network }): version 2, locktime 0, no inputs, no outputs.
EmptyPsbt == [version |-> 2, locktime |-> 0, inputs |-> <<>>, outputs |-> <<>>]

PsbtInput(hash, index, value, script, tapInternalKey, tapLeafScript, sequence) ==
    [hash |-> hash, index |-> index,
     witnessUtxo |-> [value |-> value, script |-> script],
     tapInternalKey |-> tapInternalKey, tapLeafScript |-> tapLeafScript,
     sequence |-> sequence]

\* An output paid to an address, and an output carrying a raw script.
AddressOutput(addr, value) == [address |-> addr, value |-> value]
ScriptOutput(script, value) ==
    [address |-> [type |-> "script", script |-> script], value |-> value]

\* Transaction.addOutput accepts only a Satoshi value: a non-negative integer.
IsSatoshi(value) == value >= 0

\* Transaction.getHash(): identifies the transaction by what it spends and
\* what it pays.
RECURSIVE InputDigest(_)
InputDigest(inputs) ==
    IF inputs = <<>> THEN <<>>
    ELSE Head(inputs).hash \o <<Head(inputs).index>> \o InputDigest(Tail(inputs))

RECURSIVE OutputDigest(_)
OutputDigest(outputs) ==
    IF outputs = <<>> THEN <<>>
    ELSE <<Head(outputs).value>> \o OutputDigest(Tail(outputs))

\* psbt.extractTransaction() (after signing): the outputs become the outs of
\* a Transaction.
ExtractTx(psbt) ==
    [hash |-> InputDigest(psbt.inputs) \o OutputDigest(psbt.outputs),
     outs |-> [i \in 1..Len(psbt.outputs) |->
                 [value |-> psbt.outputs[i].value,
                  script |-> psbt.outputs[i].address]]]

Failure(error) == [ok |-> FALSE, error |-> error, psbt |-> EmptyPsbt, fee |-> 0]
Success(psbt, fee) == [ok |-> TRUE, error |-> "", psbt |-> psbt, fee |-> fee]

(***************************************************************************)
(* stakingTransaction (index.ts).                                          *)
(***************************************************************************)
\* The inputs added for the selected UTXOs.
StakingInputs(selectedUTXOs, publicKeyNoCoord) ==
    [i \in 1..Len(selectedUTXOs) |->
        PsbtInput(selectedUTXOs[i].txid, selectedUTXOs[i].vout,
                  selectedUTXOs[i].value,
                  BufferFromHex(selectedUTXOs[i].scriptPubKey),
                  publicKeyNoCoord, <<>>, SEQUENCE_RBF)]

\* The change test with >= in place of >.
Mut_HasChange_AtDust(inputsSum, amount, fee) ==
    (inputsSum - (amount + fee)) >= BTC_DUST_SAT

\* Whether the change output is added.
HasChange(inputsSum, amount, fee) == (inputsSum - (amount + fee)) > BTC_DUST_SAT

\* The lock height test with > in place of >=.
Mut_IsInvalidLockHeight_AboveCutoff(lockHeight) ==
    lockHeight > BTC_LOCKTIME_HEIGHT_TIME_CUTOFF

\* lockHeight >= BTC_LOCKTIME_HEIGHT_TIME_CUTOFF: only heights are supported.
IsInvalidLockHeight(lockHeight) == lockHeight >= BTC_LOCKTIME_HEIGHT_TIME_CUTOFF

\* The outcome of stakingTransaction and the caller's list after the call.
stakingTransaction(scripts, amount, changeAddress, inputUTXOs, feeRate, publicKeyNoCoord, lockHeight) ==
    IF amount <= 0 \/ feeRate <= 0
    THEN [res |-> Failure("Amount and fee rate must be bigger than 0"),
          list |-> inputUTXOs]
    ELSE IF ~IsValidAddress(changeAddress)
    THEN [res |-> Failure("has no matching Script"), list |-> inputUTXOs]
    ELSE IF publicKeyNoCoord # Undefined /\ Len(publicKeyNoCoord) # PK_LENGTH
    THEN [res |-> Failure("Invalid public key"), list |-> inputUTXOs]
    ELSE
      LET numOutputs == IF scripts.dataEmbedScript # Undefined THEN 3 ELSE 2
          sel == getStakingTxInputUTXOsAndFees(inputUTXOs, amount, feeRate, numOutputs)
      IN IF ~sel.ok THEN [res |-> Failure(sel.error), list |-> sel.list]
         ELSE
           LET fee == sel.fee
               stakingOutput ==
                   P2trAddress(internalPubkey,
                               StakingTree(scripts.slashingScript,
                                           scripts.unbondingScript,
                                           scripts.timelockScript))
               inputsSum == inputValueSum(sel.selectedUTXOs)
               outputs ==
                   <<AddressOutput(stakingOutput, amount)>>
                   \o (IF scripts.dataEmbedScript # Undefined
                       THEN <<ScriptOutput(scripts.dataEmbedScript, 0)>> ELSE <<>>)
                   \o (IF HasChange(inputsSum, amount, fee)
                       THEN <<AddressOutput(changeAddress, inputsSum - (amount + fee))>>
                       ELSE <<>>)
               psbt == [version |-> 2,
                        locktime |-> IF lockHeight # 0 THEN lockHeight ELSE 0,
                        inputs |-> StakingInputs(sel.selectedUTXOs, publicKeyNoCoord),
                        outputs |-> outputs]
           IN IF lockHeight # 0 /\ IsInvalidLockHeight(lockHeight)
              THEN [res |-> Failure("Invalid lock height"), list |-> sel.list]
              ELSE IF lockHeight < 0
              THEN [res |-> Failure("Expected UInt32"), list |-> sel.list]
              ELSE [res |-> Success(psbt, fee), list |-> sel.list]


(***************************************************************************)
(* withdrawalTransaction and its two entry points (index.ts).              *)
(***************************************************************************)
\* The timelock read back without mapping OP_16 (96 % 16 = 0) to 16.
Mut_ParseTimelock_NoWrap(timelockScript) ==
    LET decompiled == decompile(timelockScript) IN
    IF ~decompiled.ok THEN [ok |-> FALSE, value |-> 0]
    ELSE IF Len(decompiled.chunks) < 3 THEN [ok |-> FALSE, value |-> 0]
    ELSE LET chunk == decompiled.chunks[3] IN
         IF ~chunk.isOp THEN ScriptNumDecode(chunk.data)
         ELSE [ok |-> TRUE, value |-> chunk.op % 16]

\* The relative timelock read back from a timelock script: [ok, value].
\* decompiled[2] is an opcode number for 1..16 and a Buffer above.
ParseTimelock(timelockScript) ==
    LET decompiled == decompile(timelockScript) IN
    IF ~decompiled.ok THEN [ok |-> FALSE, value |-> 0]
    ELSE IF Len(decompiled.chunks) < 3 THEN [ok |-> FALSE, value |-> 0]
    ELSE LET chunk == decompiled.chunks[3] IN
         IF ~chunk.isOp THEN ScriptNumDecode(chunk.data)
         ELSE LET wrap == chunk.op % 16 IN
              [ok |-> TRUE, value |-> IF wrap = 0 THEN 16 ELSE wrap]

\* The fee estimated as for a transaction that also has a change output.
Mut_WithdrawalFee_TwoOutputs(feeRate, numInputs) ==
    getEstimatedFee(feeRate, numInputs, 2)

\* getEstimatedFee(feeRate, psbt.txInputs.length, 1): a withdrawal always
\* has one output.
WithdrawalFee(feeRate, numInputs) == getEstimatedFee(feeRate, numInputs, 1)

withdrawalTransaction(timelockScript, scriptTree, prior, withdrawalAddress, feeRate, outputIndex) ==
    IF feeRate <= 0 THEN Failure("Withdrawal feeRate must be bigger than 0")
    ELSE IF outputIndex < 0 THEN Failure("Output index must be bigger or equal to 0")
    ELSE
      LET decompiled == decompile(timelockScript)
          timelock == ParseTimelock(timelockScript)
          path == ScriptPath(scriptTree, timelockScript)
      IN IF ~decompiled.ok THEN Failure("Timelock script is not valid")
         ELSE IF ~timelock.ok THEN Failure("script number decode failed")
         ELSE IF ~path.found THEN Failure("TypeError: witness is undefined")
         ELSE IF outputIndex + 1 > Len(prior.outs)
         THEN Failure("TypeError: output is undefined")
         ELSE IF timelock.value < 0 THEN Failure("Expected UInt32")
         ELSE
           LET out == prior.outs[outputIndex + 1]
               input == PsbtInput(prior.hash, outputIndex, out.value, out.script,
                                  internalPubkey,
                                  <<[leafVersion |-> 192, script |-> timelockScript,
                                     controlBlock |->
                                        ControlBlock(internalPubkey, scriptTree,
                                                     timelockScript)]>>,
                                  UInt32LE(timelock.value))
               outputValue == out.value
               estimatedFee == WithdrawalFee(feeRate, 1)
           IN IF outputValue < BTC_DUST_SAT
              THEN Failure("Output value is less than dust limit")
              ELSE IF ~IsValidAddress(withdrawalAddress)
              THEN Failure("has no matching Script")
              ELSE IF ~IsSatoshi(out.value - estimatedFee)
              THEN Failure("Expected Satoshi")
              ELSE Success([version |-> 2, locktime |-> 0,
                            inputs |-> <<input>>,
                            outputs |-> <<AddressOutput(withdrawalAddress,
                                                        out.value - estimatedFee)>>],
                           estimatedFee)

withdrawEarlyUnbondedTransaction(scripts, prior, withdrawalAddress, feeRate, outputIndex) ==
    withdrawalTransaction(scripts.unbondingTimelockScript,
                          UnbondingTree(scripts.slashingScript,
                                        scripts.unbondingTimelockScript),
                          prior, withdrawalAddress, feeRate, outputIndex)

\* The timelock withdrawal deriving its control block from a two-leaf tree
\* [slashing, timelock] in place of the tree of the staking output.
Mut_withdrawTimelockUnbondedTransaction_TwoLeafTree(scripts, prior, withdrawalAddress, feeRate, outputIndex) ==
    withdrawalTransaction(scripts.timelockScript,
                          UnbondingTree(scripts.slashingScript, scripts.timelockScript),
                          prior, withdrawalAddress, feeRate, outputIndex)

withdrawTimelockUnbondedTransaction(scripts, prior, withdrawalAddress, feeRate, outputIndex) ==
    withdrawalTransaction(scripts.timelockScript,
                          StakingTree(scripts.slashingScript, scripts.unbondingScript,
                                      scripts.timelockScript),
                          prior, withdrawalAddress, feeRate, outputIndex)

(***************************************************************************)
(* slashingTransaction and its two entry points (index.ts).  A slashing    *)
(* rate is the fraction <<num, den>> with den > 0, and so is a minimum     *)
(* fee, which the caller may pass as any number; the products of the code  *)
(* are kept exact.                                                         *)
(***************************************************************************)
\* The index of the source output whose value and script the input carries.
SlashingSourceIndex(outputIndex) == 0

\* The script tree of the change output: the one leaf
\* { output: scripts.unbondingTimelockScript }.
Mut_SlashingChangeTree_WithSlashingLeaf(scripts) ==
    UnbondingTree(scripts.slashingScript, scripts.unbondingTimelockScript)

SlashingChangeTree(scripts) == Leaf(scripts.unbondingTimelockScript)

slashingTransaction(scripts, scriptTree, transaction, slashingAddress, slashingRate, minimumFee, outputIndex) ==
    LET num == slashingRate[1]
        den == slashingRate[2]
        feeNum == minimumFee[1]
        feeDen == minimumFee[2]
    IN
    IF num <= 0 \/ feeNum <= 0
    THEN Failure("Slashing rate and minimum fee must be bigger than 0")
    ELSE IF outputIndex < 0 THEN Failure("Output index must be bigger or equal to 0")
    ELSE IF ~ScriptPath(scriptTree, scripts.slashingScript).found
    THEN Failure("TypeError: witness is undefined")
    ELSE IF SlashingSourceIndex(outputIndex) + 1 > Len(transaction.outs)
    THEN Failure("TypeError: output is undefined")
    ELSE
      LET out == transaction.outs[SlashingSourceIndex(outputIndex) + 1]
          input == PsbtInput(transaction.hash, outputIndex, out.value, out.script,
                             internalPubkey,
                             <<[leafVersion |-> 192, script |-> scripts.slashingScript,
                                controlBlock |->
                                   ControlBlock(internalPubkey, scriptTree,
                                                scripts.slashingScript)]>>,
                             SEQUENCE_FINAL)
          \* userValue = value * (1 - slashingRate) - minimumFee, times
          \* den * feeDen
          userValueTimesDen == out.value * (den - num) * feeDen - feeNum * den
          \* value * slashingRate, times den
          slashedTimesDen == out.value * num
          changeOutput == P2trAddress(internalPubkey, SlashingChangeTree(scripts))
      IN IF userValueTimesDen <= 0
         THEN Failure("Not enough funds to slash, stake more")
         ELSE IF ~IsValidAddress(slashingAddress)
         THEN Failure("has no matching Script")
         ELSE IF slashedTimesDen % den # 0 \/ userValueTimesDen % (den * feeDen) # 0
         THEN Failure("Expected Satoshi")
         ELSE Success([version |-> 2, locktime |-> 0,
                       inputs |-> <<input>>,
                       outputs |-> <<AddressOutput(slashingAddress,
                                                   slashedTimesDen \div den),
                                     AddressOutput(changeOutput,
                                                   userValueTimesDen \div (den * feeDen))>>],
                      0)

slashTimelockUnbondedTransaction(scripts, transaction, slashingAddress, slashingRate, minimumFee, outputIndex) ==
    slashingTransaction(scripts,
                        StakingTree(scripts.slashingScript, scripts.unbondingScript,
                                    scripts.timelockScript),
                        transaction, slashingAddress, slashingRate, minimumFee,
                        outputIndex)

slashEarlyUnbondedTransaction(scripts, transaction, slashingAddress, slashingRate, minimumFee, outputIndex) ==
    slashingTransaction(scripts,
                        UnbondingTree(scripts.slashingScript,
                                      scripts.unbondingTimelockScript),
                        transaction, slashingAddress, slashingRate, minimumFee,
                        outputIndex)

(***************************************************************************)
(* unbondingTransaction (index.ts).                                        *)
(***************************************************************************)
\* The index of the staking output whose value and script the input carries.
UnbondingSourceIndex(outputIndex) == 0

unbondingTransaction(scripts, stakingTx, transactionFee, outputIndex) ==
    IF transactionFee <= 0 THEN Failure("Unbonding fee must be bigger than 0")
    ELSE IF outputIndex < 0 THEN Failure("Output index must be bigger or equal to 0")
    ELSE
      LET inputScriptTree == StakingTree(scripts.slashingScript,
                                         scripts.unbondingScript,
                                         scripts.timelockScript)
          outputScriptTree == UnbondingTree(scripts.slashingScript,
                                            scripts.unbondingTimelockScript)
      IN IF ~ScriptPath(inputScriptTree, scripts.unbondingScript).found
         THEN Failure("TypeError: witness is undefined")
         ELSE IF UnbondingSourceIndex(outputIndex) + 1 > Len(stakingTx.outs)
         THEN Failure("TypeError: output is undefined")
         ELSE
           LET out == stakingTx.outs[UnbondingSourceIndex(outputIndex) + 1]
               input == PsbtInput(stakingTx.hash, outputIndex, out.value, out.script,
                                  internalPubkey,
                                  <<[leafVersion |-> 192,
                                     script |-> scripts.unbondingScript,
                                     controlBlock |->
                                        ControlBlock(internalPubkey, inputScriptTree,
                                                     scripts.unbondingScript)]>>,
                                  SEQUENCE_FINAL)
           IN IF ~IsSatoshi(out.value - transactionFee)
              THEN Failure("Expected Satoshi")
              ELSE Success([version |-> 2, locktime |-> 0,
                            inputs |-> <<input>>,
                            outputs |-> <<AddressOutput(
                                             P2trAddress(internalPubkey, outputScriptTree),
                                             out.value - transactionFee)>>],
                           0)


(***************************************************************************)
(* createWitness (index.ts).                                               *)
(***************************************************************************)
RECURSIVE Reverse(_)
Reverse(s) == IF s = <<>> THEN <<>> ELSE Reverse(Tail(s)) \o <<Head(s)>>

\* The covenant keys sorted without the final reverse.
Mut_SortCovenantsDesc_NoReverse(covenants) == SortBuffers(covenants)

\* [...paramsCovenants].sort(Buffer.compare).reverse()
SortCovenantsDesc(covenants) == Reverse(SortBuffers(covenants))

\* covenantSigsBuffers.find(sig => sig.btc_pk_hex.compare(covenant) === 0):
\* the index of the first collected entry for the key, or 0.
RECURSIVE FindSig(_, _, _)
FindSig(sigsBuffers, covenant, i) ==
    IF i > Len(sigsBuffers) THEN 0
    ELSE IF BufferCompare(sigsBuffers[i].btc_pk_hex, covenant) = 0 THEN i
    ELSE FindSig(sigsBuffers, covenant, i + 1)

createWitness(witness, covenants, sigs) ==
    LET covenantSigsBuffers ==
            [i \in 1..Len(sigs) |->
                [btc_pk_hex |-> BufferFromHex(sigs[i].btc_pk_hex),
                 sig_hex |-> BufferFromHex(sigs[i].sig_hex)]]
        paramsCovenantsSorted == SortCovenantsDesc(covenants)
        composedCovenantSigs ==
            [i \in 1..Len(paramsCovenantsSorted) |->
                LET found == FindSig(covenantSigsBuffers, paramsCovenantsSorted[i], 1)
                IN IF found # 0 THEN covenantSigsBuffers[found].sig_hex ELSE <<>>]
    IN composedCovenantSigs \o witness


(***************************************************************************)
(* The arguments the callers draw from.                                    *)
(***************************************************************************)
StakerKey == Key(2, 1)
FinalityProviderKey == Key(3, 1)
CovenantKeys == <<Key(5, 1), Key(4, 9), Key(4, 1)>>
MagicBytes == <<98, 98, 116, 52>>

\* The scripts built for a staking timelock t and an unbonding timelock u.
ScriptsFor(t, u) ==
    buildScripts(StakingScriptData(StakerKey, <<FinalityProviderKey>>, CovenantKeys,
                                   2, t, u, MagicBytes)).scripts

\* The same scripts handed over without the optional data embed script.
WithoutDataEmbed(scripts) == [scripts EXCEPT !.dataEmbedScript = Undefined]

\* Timelocks around every change of encoding: the small-integer opcodes
\* 1..16, one-byte pushes, and the two- and three-byte script numbers.
Timelocks ==
    (1..MaxSmallTimelock) \cup {127, 128, 255, 256, 32767, 32768, 65535}

BaseStakingTimelock == 150
BaseUnbondingTimelock == 101
BaseScripts == ScriptsFor(BaseStakingTimelock, BaseUnbondingTimelock)

\* Wallets: UTXO values around amount + fee and around the dust threshold
\* for a stake of 1000 at 1 sat/byte (fee 299 for one input, two outputs).
UtxoValues == {1, 700, 1299, 1845, 1846}

Utxo(i, v) ==
    [txid |-> <<i>>, vout |-> 0, value |-> v,
     scriptPubKey |-> <<"0", "0", "1", "4">>]

WalletLists ==
    UNION {{[i \in 1..n |-> Utxo(i, f[i])] : f \in [1..n -> UtxoValues]} : n \in 0..MaxUtxos}

FeeRates == 1..MaxFeeRate
StakeAmounts == {1000}
ChangeAddress == WalletAddress(1)
WithdrawalAddress == WalletAddress(2)
SlashingAddress == WalletAddress(3)

\* (publicKeyNoCoord, lockHeight, changeAddress) as the callers vary them.
StakingOptions ==
    {<<Undefined, 0, ChangeAddress>>,
     <<StakerKey, 100, ChangeAddress>>,
     <<SubSeq(StakerKey, 1, PK_LENGTH - 1), 0, ChangeAddress>>,
     <<Undefined, BTC_LOCKTIME_HEIGHT_TIME_CUTOFF - 1, ChangeAddress>>,
     <<Undefined, BTC_LOCKTIME_HEIGHT_TIME_CUTOFF, ChangeAddress>>,
     <<Undefined, BTC_LOCKTIME_HEIGHT_TIME_CUTOFF + 1, ChangeAddress>>,
     <<Undefined, BTC_LOCKTIME_HEIGHT_TIME_CUTOFF, InvalidAddress>>,
     <<Undefined, 0, InvalidAddress>>}

(***************************************************************************)
(* Wallet side: UTXO selection and the staking transaction.                *)
(***************************************************************************)
NoCall == [fn |-> "none"]
NoReturn == [ok |-> FALSE, error |-> "none"]

InitWitnessIdle ==
    /\ originalWitness = <<>>
    /\ paramsCovenants = <<>>
    /\ covenantSigs = <<>>

InitSpendIdle ==
    /\ tx = [hash |-> <<>>, outs |-> <<>>]
    /\ hops = 0

\* No StakingScriptData object has been constructed.
NoScriptData == StakingScriptData(<<>>, <<>>, <<>>, 0, 0, 0, <<>>)

InitScriptsIdle ==
    /\ scriptData = NoScriptData
    /\ suppliedParams = NoScriptData

InitStaking ==
    /\ availableUTXOs \in WalletLists
    /\ InitSpendIdle
    /\ InitWitnessIdle
    /\ InitScriptsIdle
    /\ call = NoCall
    /\ ret = NoReturn

\* A direct call of getStakingTxInputUTXOsAndFees on the wallet list.
SelectUTXOs ==
    \E stakingAmount \in StakeAmounts \cup {2500}, feeRate \in 0..MaxFeeRate,
       numOfOutputs \in {2, 3} :
        LET r == getStakingTxInputUTXOsAndFees(availableUTXOs, stakingAmount,
                                               feeRate, numOfOutputs)
        IN /\ call' = [fn |-> "getStakingTxInputUTXOsAndFees",
                       availableUTXOs |-> availableUTXOs,
                       stakingAmount |-> stakingAmount, feeRate |-> feeRate,
                       numOfOutputs |-> numOfOutputs]
           /\ ret' = [ok |-> r.ok, error |-> r.error,
                      selectedUTXOs |-> r.selectedUTXOs, fee |-> r.fee]
           /\ availableUTXOs' = r.list
           /\ UNCHANGED <<spendVars, witnessVars, scriptVars>>

StakingCall(scripts, amount, feeRate, opt) ==
    LET r == stakingTransaction(scripts, amount, opt[3], availableUTXOs, feeRate,
                                opt[1], opt[2])
    IN /\ call' = [fn |-> "stakingTransaction", scripts |-> scripts,
                   amount |-> amount, changeAddress |-> opt[3],
                   inputUTXOs |-> availableUTXOs, feeRate |-> feeRate,
                   publicKeyNoCoord |-> opt[1], lockHeight |-> opt[2]]
       /\ ret' = r.res
       /\ availableUTXOs' = r.list
       /\ UNCHANGED <<spendVars, witnessVars, scriptVars>>

\* stakingTransaction with arguments that pass the amount and fee rate check.
StakingTransaction ==
    \E scripts \in {BaseScripts, WithoutDataEmbed(BaseScripts)},
       amount \in StakeAmounts, feeRate \in FeeRates, opt \in StakingOptions :
        StakingCall(scripts, amount, feeRate, opt)

\* stakingTransaction with an amount or a fee rate that is not positive.
StakingTransactionBadParameter ==
    \E p \in {<<0, 1>>, <<1000, 0>>, <<-1, 1>>} :
        StakingCall(BaseScripts, p[1], p[2], <<Undefined, 0, ChangeAddress>>)

NextStaking ==
    \/ SelectUTXOs
    \/ StakingTransaction
    \/ StakingTransactionBadParameter

SpecStaking == InitStaking /\ [][NextStaking]_vars


(***************************************************************************)
(* Properties of UTXO selection and of the staking transaction.            *)
(***************************************************************************)
RECURSIVE SumInputs(_)
SumInputs(inputs) ==
    IF inputs = <<>> THEN 0
    ELSE Head(inputs).witnessUtxo.value + SumInputs(Tail(inputs))

IsSelectCall == call.fn = "getStakingTxInputUTXOsAndFees"
IsStakingCall == call.fn = "stakingTransaction"

\* The sum of the first k elements of a list of UTXOs.
PrefixSum(list, k) == SumValues(SubSeq(list, 1, k))

\* Whether the first k UTXOs of the list cover the amount and the fee of a
\* transaction with k inputs.
PrefixCovers(list, k, stakingAmount, feeRate, numOfOutputs) ==
    PrefixSum(list, k) >= stakingAmount + getEstimatedFee(feeRate, k, numOfOutputs)

IsSortedDesc(list) ==
    \A i \in 1..(Len(list) - 1) : list[i].value >= list[i + 1].value

\* Whether list a is list b rearranged.
IsPermutation(a, b) ==
    /\ Len(a) = Len(b)
    /\ \A x \in {a[i] : i \in 1..Len(a)} :
          Cardinality({i \in 1..Len(a) : a[i] = x})
            = Cardinality({i \in 1..Len(b) : b[i] = x})

C2_InputsMinusOutputsIsFee ==
    (IsStakingCall /\ ret.ok) =>
        SumInputs(ret.psbt.inputs) - SumValues(ret.psbt.outputs) = ret.fee

\* The number of outputs that precede the change output.
FixedOutputs == IF call.scripts.dataEmbedScript # Undefined THEN 2 ELSE 1

\* What is left of the inputs after the amount and the returned fee.
Leftover == SumInputs(ret.psbt.inputs) - (call.amount + ret.fee)

\* C3: a successful stakingTransaction has a change output, paying exactly
\* the leftover to changeAddress, exactly when the leftover exceeds 546.
C3_ChangeIffAboveDust ==
    (IsStakingCall /\ ret.ok) =>
        /\ Leftover > 546 =>
              /\ Len(ret.psbt.outputs) = FixedOutputs + 1
              /\ ret.psbt.outputs[FixedOutputs + 1]
                    = AddressOutput(call.changeAddress, Leftover)
        /\ Leftover <= 546 => Len(ret.psbt.outputs) = FixedOutputs

\* A stake whose leftover is exactly the dust threshold was built without a
\* change output.
C3_Witness ==
    /\ IsStakingCall /\ ret.ok
    /\ Leftover = 546
    /\ Len(ret.psbt.outputs) = FixedOutputs

\* C9: a successful selection returns the first k UTXOs of the list sorted by
\* value descending, k being the smallest count whose prefix covers
\* stakingAmount plus the fee for k inputs.
C9_SmallestCoveringPrefix ==
    (IsSelectCall /\ ret.ok /\ call.feeRate > 0) =>
        LET k == Len(ret.selectedUTXOs) IN
        /\ IsSortedDesc(availableUTXOs)
        /\ IsPermutation(availableUTXOs, call.availableUTXOs)
        /\ k >= 1
        /\ ret.selectedUTXOs = SubSeq(availableUTXOs, 1, k)
        /\ PrefixCovers(availableUTXOs, k, call.stakingAmount, call.feeRate,
                        call.numOfOutputs)
        /\ \A j \in 1..(k - 1) :
              ~PrefixCovers(availableUTXOs, j, call.stakingAmount, call.feeRate,
                            call.numOfOutputs)

\* A selection stopped before the end of an unsorted wallet list.
C9_Witness ==
    /\ IsSelectCall /\ ret.ok /\ call.feeRate > 0
    /\ Len(ret.selectedUTXOs) = 2
    /\ Len(call.availableUTXOs) = 3
    /\ ~IsSortedDesc(call.availableUTXOs)

\* Whether some prefix of the descending list covers amount plus fee.
SomePrefixCovers ==
    LET sorted == SortDescByValue(call.availableUTXOs) IN
    \E k \in 1..Len(sorted) :
        PrefixCovers(sorted, k, call.stakingAmount, call.feeRate, call.numOfOutputs)

PriorStakeAmounts == {545, 546, 1000, 100000}

StakingTxOf(scripts, amount) ==
    ExtractTx(stakingTransaction(scripts, amount, ChangeAddress,
                                 <<Utxo(1, 200000)>>, 1, Undefined, 0).res.psbt)

SampleTxs ==
    {StakingTxOf(BaseScripts, a) : a \in PriorStakeAmounts}
      \cup {StakingTxOf(WithoutDataEmbed(BaseScripts), 1000)}

\* (feeRate or fee, outputIndex) as the callers vary them: every rate on
\* output 0, and one rate on the other indexes.
RateAndIndex == {<<r, 0>> : r \in 0..MaxFeeRate} \cup {<<1, i>> : i \in {-1, 1, 2, 3}}

UnbondingFees == {0, 1, 500}
SlashingRates == {<<1, 2>>, <<1, 4>>, <<3, 4>>, <<0, 1>>, <<-1, 4>>, <<1, 1>>, <<3, 2>>}
MinimumFees == {<<0, 1>>, <<-1, 1>>, <<1, 1>>, <<500, 1>>, <<3, 2>>}

InitWalletIdle == availableUTXOs = <<>>

InitSpend ==
    /\ tx \in SampleTxs
    /\ hops = 0
    /\ InitWalletIdle
    /\ InitWitnessIdle
    /\ InitScriptsIdle
    /\ call = NoCall
    /\ ret = NoReturn

UnbondingTransaction ==
    \E p \in {<<f, 0>> : f \in UnbondingFees} \cup {<<1, i>> : i \in {-1, 1, 2, 3}} :
        /\ call' = [fn |-> "unbondingTransaction", scripts |-> BaseScripts,
                    stakingTx |-> tx, transactionFee |-> p[1], outputIndex |-> p[2]]
        /\ ret' = unbondingTransaction(BaseScripts, tx, p[1], p[2])
        /\ UNCHANGED <<walletVars, spendVars, witnessVars, scriptVars>>

WithdrawCall(fn, scripts, timelock, addr, p) ==
    /\ call' = [fn |-> fn, scripts |-> scripts, timelock |-> timelock,
                tx |-> tx, withdrawalAddress |-> addr,
                feeRate |-> p[1], outputIndex |-> p[2]]
    /\ ret' = IF fn = "withdrawEarlyUnbondedTransaction"
              THEN withdrawEarlyUnbondedTransaction(scripts, tx, addr, p[1], p[2])
              ELSE withdrawTimelockUnbondedTransaction(scripts, tx, addr, p[1], p[2])
    /\ UNCHANGED <<walletVars, spendVars, witnessVars, scriptVars>>

\* Withdrawal after the staking timelock, for every sampled timelock.
WithdrawTimelockUnbonded ==
    \/ \E t \in Timelocks :
          WithdrawCall("withdrawTimelockUnbondedTransaction",
                       ScriptsFor(t, BaseUnbondingTimelock), t,
                       WithdrawalAddress, <<1, 0>>)
    \/ \E p \in RateAndIndex, addr \in {WithdrawalAddress, InvalidAddress} :
          WithdrawCall("withdrawTimelockUnbondedTransaction", BaseScripts,
                       BaseStakingTimelock, addr, p)

\* Withdrawal of an unbonded stake, for every sampled unbonding timelock.
WithdrawEarlyUnbonded ==
    \/ \E u \in Timelocks :
          WithdrawCall("withdrawEarlyUnbondedTransaction",
                       ScriptsFor(BaseStakingTimelock, u), u,
                       WithdrawalAddress, <<1, 0>>)
    \/ \E p \in RateAndIndex, addr \in {WithdrawalAddress, InvalidAddress} :
          WithdrawCall("withdrawEarlyUnbondedTransaction", BaseScripts,
                       BaseUnbondingTimelock, addr, p)

SlashCall(fn, rate, minimumFee, outputIndex) ==
    /\ call' = [fn |-> fn, scripts |-> BaseScripts, transaction |-> tx,
                slashingAddress |-> SlashingAddress, slashingRate |-> rate,
                minimumFee |-> minimumFee, outputIndex |-> outputIndex]
    /\ ret' = IF fn = "slashEarlyUnbondedTransaction"
              THEN slashEarlyUnbondedTransaction(BaseScripts, tx, SlashingAddress,
                                                 rate, minimumFee, outputIndex)
              ELSE slashTimelockUnbondedTransaction(BaseScripts, tx, SlashingAddress,
                                                    rate, minimumFee, outputIndex)
    /\ UNCHANGED <<walletVars, spendVars, witnessVars, scriptVars>>

SlashArgs ==
    {<<rate, fee, 0>> : rate \in SlashingRates, fee \in MinimumFees}
      \cup {<<<<1, 2>>, <<500, 1>>, i>> : i \in {-1, 1, 2, 3}}

SlashTimelockUnbonded ==
    \E a \in SlashArgs : SlashCall("slashTimelockUnbondedTransaction", a[1], a[2], a[3])

SlashEarlyUnbonded ==
    \E a \in SlashArgs : SlashCall("slashEarlyUnbondedTransaction", a[1], a[2], a[3])

\* The caller has the unbonding transaction signed and extracts it; its
\* output is what the early withdrawal and the early slashing spend.
ExtractUnbondingTransaction ==
    /\ call.fn = "unbondingTransaction"
    /\ ret.ok
    /\ hops < MaxHops
    /\ tx' = ExtractTx(ret.psbt)
    /\ hops' = hops + 1
    /\ UNCHANGED <<walletVars, witnessVars, scriptVars, call, ret>>

NextSpend ==
    \/ UnbondingTransaction
    \/ WithdrawTimelockUnbonded
    \/ WithdrawEarlyUnbonded
    \/ SlashTimelockUnbonded
    \/ SlashEarlyUnbonded
    \/ ExtractUnbondingTransaction

SpecSpend == InitSpend /\ [][NextSpend]_vars


(***************************************************************************)
(* Properties of the spending transactions.                                *)
(***************************************************************************)
IsSlashCall ==
    call.fn \in {"slashTimelockUnbondedTransaction", "slashEarlyUnbondedTransaction"}
IsUnbondingCall == call.fn = "unbondingTransaction"
IsWithdrawCall ==
    call.fn \in {"withdrawTimelockUnbondedTransaction",
                 "withdrawEarlyUnbondedTransaction"}

\* floor(value * num / den) for a rate num/den with value, num >= 0.
FloorOfProduct(value, rate) == (value * rate[1]) \div rate[2]

\* C4 (as claimed): a successful slashing transaction whose two amounts are
\* not below dust pays floor(sourceValue * slashingRate) to slashingAddress
\* in output 0 and sourceValue - that - minimumFee in output 1, where
\* sourceValue is the value of the source output at outputIndex.
C4_SlashingOutputValues ==
    (/\ IsSlashCall /\ ret.ok
     /\ call.minimumFee[2] = 1
     /\ call.outputIndex + 1 <= Len(call.transaction.outs)) =>
        LET sourceValue == call.transaction.outs[call.outputIndex + 1].value
            slashed == FloorOfProduct(sourceValue, call.slashingRate)
            remainder == sourceValue - slashed - call.minimumFee[1]
        IN (slashed >= BTC_DUST_SAT /\ remainder >= BTC_DUST_SAT) =>
              /\ Len(ret.psbt.outputs) = 2
              /\ ret.psbt.outputs[1] = AddressOutput(call.slashingAddress, slashed)
              /\ ret.psbt.outputs[2].value = remainder
              /\ ret.psbt.outputs[1].value + ret.psbt.outputs[2].value
                    + call.minimumFee[1] = sourceValue

\* C5 (as claimed): the input of a successful unbonding transaction carries
\* the value and script of stakingTx.outs[outputIndex], and the single
\* output is worth that value minus the fee.
C5_UnbondingSpendsIndexedOutput ==
    (/\ IsUnbondingCall /\ ret.ok
     /\ call.outputIndex + 1 <= Len(call.stakingTx.outs)) =>
        LET out == call.stakingTx.outs[call.outputIndex + 1] IN
        /\ Len(ret.psbt.inputs) = 1
        /\ ret.psbt.inputs[1].index = call.outputIndex
        /\ ret.psbt.inputs[1].witnessUtxo = [value |-> out.value, script |-> out.script]
        /\ Len(ret.psbt.outputs) = 1
        /\ ret.psbt.outputs[1].value = out.value - call.transactionFee

\* C6: a successful withdrawal has one input and one output, pays
\* withdrawalAddress the prior output's value minus getEstimatedFee(feeRate,
\* 1, 1), and returns that estimate as its fee.
C6_WithdrawalValueAndFee ==
    (IsWithdrawCall /\ ret.ok) =>
        LET inputValue == call.tx.outs[call.outputIndex + 1].value
            estimate == getEstimatedFee(call.feeRate, 1, 1)
        IN /\ Len(ret.psbt.inputs) = 1
           /\ Len(ret.psbt.outputs) = 1
           /\ ret.psbt.inputs[1].witnessUtxo.value = inputValue
           /\ ret.psbt.outputs[1] = AddressOutput(call.withdrawalAddress,
                                                  inputValue - estimate)
           /\ ret.fee = estimate
           /\ SumInputs(ret.psbt.inputs) - SumValues(ret.psbt.outputs) = ret.fee
           /\ SumInputs(ret.psbt.inputs) > SumValues(ret.psbt.outputs)

\* A withdrawal of an output other than the first was built.
C6_Witness ==
    /\ IsWithdrawCall /\ ret.ok
    /\ call.outputIndex = 2
    /\ ret.psbt.outputs[1].value > 0

\* The timelock script the withdrawal redeems.
RedeemedTimelockScript ==
    IF call.fn = "withdrawEarlyUnbondedTransaction"
    THEN call.scripts.unbondingTimelockScript
    ELSE call.scripts.timelockScript

\* C7: a withdrawal that redeems buildTimelockScript(t), 1 <= t <= 65535,
\* never fails to read the timelock back, and when it is built its input
\* sequence is exactly t and its version is 2.
C7_SequenceIsTimelock ==
    (/\ IsWithdrawCall
     /\ call.timelock >= 1 /\ call.timelock <= 65535
     /\ RedeemedTimelockScript = buildTimelockScript(StakerKey, call.timelock)) =>
        /\ ret.error \notin {"Timelock script is not valid",
                             "script number decode failed"}
        /\ ret.ok =>
              /\ ret.psbt.inputs[1].sequence = UInt32LE(call.timelock)
              /\ FromLittleEndian(ret.psbt.inputs[1].sequence) = call.timelock
              /\ ret.psbt.version = 2

\* A withdrawal was built for the timelock 16, the last small-integer
\* opcode, whose opcode number is a multiple of 16.
C7_Witness ==
    /\ IsWithdrawCall /\ ret.ok
    /\ call.timelock = 16
    /\ RedeemedTimelockScript = buildTimelockScript(StakerKey, 16)


(***************************************************************************)
(* Witness side: the caller collects covenant signatures and composes the  *)
(* witness of the unbonding input.                                         *)
(***************************************************************************)
\* Covenant keys whose byte order differs from their order by length.
WitnessKeys == {<<1>>, <<2>>, <<1, 255>>}

\* Hex strings of collected keys: members in lower and upper case, a string
\* with a dangling digit, and a key outside the committee.
PkHexes ==
    {<<"0", "1">>, <<"0", "2">>, <<"0", "1", "F", "F">>, <<"0", "1", "2">>,
     <<"0", "3">>}

SigHexes == {<<"a", "a">>, <<"b", "b">>, <<>>}

OriginalWitnesses == {<<>>, <<<<7>>>>, <<<<7>>, <<8, 9>>>>}

CovenantLists == UNION {[1..n -> WitnessKeys] : n \in 0..MaxCovenants}

InitWitness ==
    /\ originalWitness \in OriginalWitnesses
    /\ paramsCovenants \in CovenantLists
    /\ covenantSigs = <<>>
    /\ InitWalletIdle
    /\ InitSpendIdle
    /\ InitScriptsIdle
    /\ call = NoCall
    /\ ret = NoReturn

\* One more covenant signature arrives from the API.
CollectSignature ==
    /\ Len(covenantSigs) < MaxSigs
    /\ \E pk \in PkHexes, sig \in SigHexes :
          covenantSigs' = Append(covenantSigs, [btc_pk_hex |-> pk, sig_hex |-> sig])
    /\ UNCHANGED <<walletVars, spendVars, scriptVars, originalWitness, paramsCovenants,
                   call, ret>>

CreateWitness ==
    /\ call' = [fn |-> "createWitness", originalWitness |-> originalWitness,
                paramsCovenants |-> paramsCovenants, covenantSigs |-> covenantSigs]
    /\ ret' = [ok |-> TRUE, error |-> "",
               witness |-> createWitness(originalWitness, paramsCovenants,
                                         covenantSigs)]
    /\ UNCHANGED <<walletVars, spendVars, witnessVars, scriptVars>>

NextWitness ==
    \/ CollectSignature
    \/ CreateWitness

SpecWitness == InitWitness /\ [][NextWitness]_vars

IsWitnessCall == call.fn = "createWitness"

IsDescending(keys) ==
    \A i \in 1..(Len(keys) - 1) : BufferCompare(keys[i], keys[i + 1]) >= 0

\* The collected entries whose decoded public key equals the key.
EntriesFor(sigs, key) ==
    {i \in 1..Len(sigs) : BufferFromHex(sigs[i].btc_pk_hex) = key}

\* The element expected for a key: the signature of the first collected
\* entry for it, or the zero-length element.
ExpectedSig(sigs, key) ==
    IF EntriesFor(sigs, key) = {} THEN <<>>
    ELSE LET first == CHOOSE i \in EntriesFor(sigs, key) :
                          \A j \in EntriesFor(sigs, key) : i <= j
         IN BufferFromHex(sigs[first].sig_hex)

\* C8: createWitness returns one element per covenant key, for the keys in
\* descending byte order, each the signature collected for that key or a
\* zero-length element, followed by the original witness unchanged; entries
\* for keys outside paramsCovenants contribute nothing.
C8_WitnessComposition ==
    IsWitnessCall =>
        LET n == Len(call.paramsCovenants)
            w == ret.witness
            desc == SortCovenantsDesc(call.paramsCovenants)
            members == {i \in 1..Len(call.covenantSigs) :
                          \E k \in 1..n :
                              BufferFromHex(call.covenantSigs[i].btc_pk_hex)
                                = call.paramsCovenants[k]}
        IN /\ Len(w) = n + Len(call.originalWitness)
           /\ IsPermutation(desc, call.paramsCovenants)
           /\ IsDescending(desc)
           /\ \A i \in 1..n : w[i] = ExpectedSig(call.covenantSigs, desc[i])
           /\ \A i \in 1..n :
                 w[i] # <<>> =>
                    \E e \in members :
                        /\ BufferFromHex(call.covenantSigs[e].btc_pk_hex) = desc[i]
                        /\ BufferFromHex(call.covenantSigs[e].sig_hex) = w[i]
           /\ SubSeq(w, n + 1, Len(w)) = call.originalWitness

\* Two covenant keys supplied in ascending order, one of them signed, one
\* signature from outside the committee, and a non-empty original witness.
C8_Witness ==
    /\ IsWitnessCall
    /\ call.paramsCovenants = <<<<1>>, <<2>>>>
    /\ Len(call.covenantSigs) = 2
    /\ EntriesFor(call.covenantSigs, <<1>>) # {}
    /\ EntriesFor(call.covenantSigs, <<3>>) # {}
    /\ ret.witness[1] = <<>>
    /\ ret.witness[2] # <<>>
    /\ Len(call.originalWitness) = 2

(***************************************************************************)
(* Fee estimation called on its own.                                       *)
(***************************************************************************)
InitFee ==
    /\ InitWalletIdle
    /\ InitSpendIdle
    /\ InitWitnessIdle
    /\ InitScriptsIdle
    /\ call = NoCall
    /\ ret = NoReturn

GetEstimatedFee ==
    \E feeRate \in 0..MaxFeeRate, numInputs \in 0..MaxFeeCount,
       numOutputs \in 0..MaxFeeCount :
        /\ call' = [fn |-> "getEstimatedFee", feeRate |-> feeRate,
                    numInputs |-> numInputs, numOutputs |-> numOutputs]
        /\ ret' = [ok |-> TRUE, error |-> "",
                   fee |-> getEstimatedFee(feeRate, numInputs, numOutputs)]
        /\ UNCHANGED <<walletVars, spendVars, witnessVars, scriptVars>>

NextFee == GetEstimatedFee

SpecFee == InitFee /\ [][NextFee]_vars

IsFeeCall == call.fn = "getEstimatedFee"

\* Two calls in a row with the same positive fee rate, the second with at
\* least as many inputs and at least as many outputs as the first.
FeeCallsGrow ==
    /\ IsFeeCall
    /\ call'.fn = "getEstimatedFee"
    /\ call.feeRate > 0
    /\ call'.feeRate = call.feeRate
    /\ call'.numInputs >= call.numInputs
    /\ call'.numOutputs >= call.numOutputs

KeyPool == {Key(4, 9), Key(4, 1), Key(5, 1)}

KeyLists == UNION {[1..n -> KeyPool] : n \in 0..MaxKeys}

\* Thresholds met by one key, by two keys, and by no list.
Thresholds == {1, 2, MaxKeys + 1}

InitMultiKey ==
    /\ InitWalletIdle
    /\ InitSpendIdle
    /\ InitWitnessIdle
    /\ InitScriptsIdle
    /\ call = NoCall
    /\ ret = NoReturn

BuildMultiKeyScript ==
    \E pks \in KeyLists, threshold \in Thresholds, withVerify \in BOOLEAN :
        LET r == buildMultiKeyScript(pks, threshold, withVerify)
        IN /\ call' = [fn |-> "buildMultiKeyScript", pks |-> pks,
                       threshold |-> threshold, withVerify |-> withVerify]
           /\ ret' = [ok |-> r.ok, error |-> r.error, script |-> r.script,
                      pks |-> r.pks]
           /\ UNCHANGED <<walletVars, spendVars, witnessVars, scriptVars>>

NextMultiKey == BuildMultiKeyScript

SpecMultiKey == InitMultiKey /\ [][NextMultiKey]_vars

IsMultiKeyCall == call.fn = "buildMultiKeyScript"

\* a is below b in byte order (keys of equal length).
KeyBelow(a, b) ==
    \E i \in 1..Len(a) : a[i] < b[i] /\ \A j \in 1..(i - 1) : a[j] = b[j]

HasDistinctKeys(pks) == \A i, j \in 1..Len(pks) : i # j => pks[i] # pks[j]

\* The rearrangements of a list of distinct keys.
Rearrangements(pks) ==
    {q \in [1..Len(pks) -> {pks[i] : i \in 1..Len(pks)}] : HasDistinctKeys(q)}

\* The rearrangement in strictly ascending byte order.
AscendingKeys(pks) ==
    CHOOSE q \in Rearrangements(pks) :
        \A i \in 1..(Len(q) - 1) : KeyBelow(q[i], q[i + 1])

\* The bytes of <k1> CHECKSIG <k2> CHECKSIGADD ... for keys in this order.
RECURSIVE KeyAndOpBytes(_, _)
KeyAndOpBytes(keys, i) ==
    IF i > Len(keys) THEN <<>>
    ELSE <<32>> \o keys[i] \o <<IF i = 1 THEN 172 ELSE 186>> \o KeyAndOpBytes(keys, i + 1)

\* The one-byte push of a threshold in 0..16.
ThresholdByte(threshold) == IF threshold = 0 THEN 0 ELSE 80 + threshold

\* C16: for a list of two or more distinct keys in any order (threshold not
\* above their number) buildMultiKeyScript returns the keys in strictly
\* ascending byte order, the smallest followed by CHECKSIG and each later
\* one by CHECKSIGADD, then the threshold and GREATERTHANOREQUAL, then VERIFY
\* exactly when withVerify; every rearrangement of the list gives the same
\* script.
C16_MultiKeyScriptSorted ==
    (/\ IsMultiKeyCall
     /\ Len(call.pks) >= 2
     /\ HasDistinctKeys(call.pks)
     /\ call.threshold <= Len(call.pks)) =>
        /\ ret.ok
        /\ ret.script = KeyAndOpBytes(AscendingKeys(call.pks), 1)
                          \o <<ThresholdByte(call.threshold), 162>>
                          \o (IF call.withVerify THEN <<105>> ELSE <<>>)
        /\ \A q \in Rearrangements(call.pks) :
              buildMultiKeyScript(q, call.threshold, call.withVerify).script
                 = ret.script

C16_Witness ==
    /\ IsMultiKeyCall
    /\ call.pks = <<Key(5, 1), Key(4, 9), Key(4, 1)>>
    /\ call.threshold = 2
    /\ call.withVerify
    /\ ret.ok
    /\ ret.script = <<32>> \o Key(4, 1) \o <<172, 32>> \o Key(4, 9) \o <<186, 32>>
                      \o Key(5, 1) \o <<186, 82, 162, 105>>

\* C17: buildMultiKeyScript fails on an empty key list, on a threshold above
\* the number of keys, and on a list of two or more keys with two equal
\* keys; with exactly one key (and a threshold it meets) it returns the
\* single-key script: the key then CHECKSIGVERIFY when withVerify and
\* CHECKSIG otherwise.
C17_MultiKeyScriptErrors ==
    IsMultiKeyCall =>
        /\ Len(call.pks) = 0 => ~ret.ok /\ ret.error = "No keys provided"
        /\ call.threshold > Len(call.pks) => ~ret.ok
        /\ (Len(call.pks) >= 1 /\ call.threshold > Len(call.pks)) =>
              ret.error = "Required number of valid signers is greater than number of provided keys"
        /\ (/\ Len(call.pks) >= 2
            /\ call.threshold <= Len(call.pks)
            /\ ~HasDistinctKeys(call.pks)) =>
              ~ret.ok /\ ret.error = "Duplicate keys provided"
        /\ (Len(call.pks) = 1 /\ call.threshold <= 1) =>
              /\ ret.ok
              /\ ret.script = <<32>> \o call.pks[1]
                                \o <<IF call.withVerify THEN 173 ELSE 172>>

C17_Witness ==
    /\ IsMultiKeyCall
    /\ call.pks = <<Key(4, 9), Key(5, 1), Key(4, 9)>>
    /\ call.threshold = 2
    /\ ~ret.ok
    /\ ret.error = "Duplicate keys provided"

(***************************************************************************)
(* A StakingScriptData object: construction, validate and the builders     *)
(* called on it, which sort its key lists in place.                        *)
(***************************************************************************)
SecondFinalityProviderKey == Key(1, 7)
ShortKey == [i \in 1..(PK_LENGTH - 1) |-> IF i = 1 THEN 6 ELSE 0]
LongKey == [i \in 1..(PK_LENGTH + 1) |-> IF i = 1 THEN 6 ELSE 0]

StakerKeys == {StakerKey, ShortKey, LongKey}

FinalityProviderKeyLists ==
    {<<FinalityProviderKey>>,
     <<FinalityProviderKey, SecondFinalityProviderKey>>,
     <<SecondFinalityProviderKey, FinalityProviderKey>>,
     <<FinalityProviderKey, StakerKey>>,
     <<FinalityProviderKey, ShortKey>>,
     <<FinalityProviderKey, FinalityProviderKey>>,
     <<>>}

CovenantKeyLists ==
    {CovenantKeys,
     <<Key(4, 1), Key(4, 9), Key(5, 1)>>,
     <<Key(5, 1), StakerKey, Key(4, 9), Key(4, 1)>>,
     <<FinalityProviderKey, Key(5, 1), Key(4, 9), Key(4, 1)>>,
     <<Key(4, 9), ShortKey, Key(5, 1)>>,
     <<Key(4, 9), Key(5, 1), Key(4, 9)>>}

CovenantThresholds == 0..4
ScriptTimelocks == {0, 1, 65535, 65536}
MagicBytesChoices == {<<170, 170, 170>>, MagicBytes, <<170, 170, 170, 170, 170>>}

\* The constructor arguments tried: every pair of key lists with the other
\* arguments valid, and every other argument varied on its own.
ScriptArgs ==
    {<<StakerKey, fps, covs, 2, BaseStakingTimelock, BaseUnbondingTimelock, MagicBytes>> :
        fps \in FinalityProviderKeyLists, covs \in CovenantKeyLists}
    \cup {<<k, <<FinalityProviderKey>>, CovenantKeys, 2, BaseStakingTimelock,
            BaseUnbondingTimelock, MagicBytes>> : k \in StakerKeys}
    \cup {<<StakerKey, <<FinalityProviderKey>>, CovenantKeys, t, BaseStakingTimelock,
            BaseUnbondingTimelock, MagicBytes>> : t \in CovenantThresholds}
    \cup {<<StakerKey, <<FinalityProviderKey>>, CovenantKeys, 2, t,
            BaseUnbondingTimelock, MagicBytes>> : t \in ScriptTimelocks}
    \cup {<<StakerKey, <<FinalityProviderKey>>, CovenantKeys, 2, BaseStakingTimelock,
            u, MagicBytes>> : u \in ScriptTimelocks}
    \cup {<<StakerKey, <<FinalityProviderKey>>, CovenantKeys, 2, BaseStakingTimelock,
            BaseUnbondingTimelock, m>> : m \in MagicBytesChoices}

InitScripts ==
    /\ InitWalletIdle
    /\ InitSpendIdle
    /\ InitWitnessIdle
    /\ InitScriptsIdle
    /\ call = NoCall
    /\ ret = NoReturn

Constructed == call # NoCall

\* new StakingScriptData(...): stores the arguments and returns the object.
NewStakingScriptData ==
    \E a \in ScriptArgs :
        LET d == StakingScriptData(a[1], a[2], a[3], a[4], a[5], a[6], a[7])
        IN /\ scriptData' = d
           /\ suppliedParams' = d
           /\ call' = [fn |-> "new StakingScriptData"]
           /\ ret' = [ok |-> TRUE, error |-> ""]
           /\ UNCHANGED <<walletVars, spendVars, witnessVars>>

Validate ==
    /\ Constructed
    /\ call' = [fn |-> "validate"]
    /\ ret' = [ok |-> TRUE, error |-> "", valid |-> validate(scriptData)]
    /\ UNCHANGED <<walletVars, spendVars, witnessVars, scriptVars>>

BuildScripts ==
    /\ Constructed
    /\ LET r == buildScripts(scriptData)
       IN /\ call' = [fn |-> "buildScripts"]
          /\ ret' = [ok |-> r.ok, error |-> r.error, scripts |-> r.scripts]
          /\ scriptData' = r.data
    /\ UNCHANGED <<walletVars, spendVars, witnessVars, suppliedParams>>

\* One of the single-script builders called on the object.
BuildOneScript(fn, r) ==
    /\ Constructed
    /\ call' = [fn |-> fn]
    /\ ret' = [ok |-> r.ok, error |-> r.error, script |-> r.script]
    /\ scriptData' = r.data
    /\ UNCHANGED <<walletVars, spendVars, witnessVars, suppliedParams>>

BuildUnbondingScript == BuildOneScript("buildUnbondingScript", buildUnbondingScript(scriptData))

BuildSlashingScript == BuildOneScript("buildSlashingScript", buildSlashingScript(scriptData))

BuildDataEmbedScript == BuildOneScript("buildDataEmbedScript", buildDataEmbedScript(scriptData))

NextScripts ==
    \/ NewStakingScriptData
    \/ Validate
    \/ BuildScripts
    \/ BuildUnbondingScript
    \/ BuildSlashingScript
    \/ BuildDataEmbedScript

SpecScripts == InitScripts /\ [][NextScripts]_vars

(***************************************************************************)
(* Properties of StakingScriptData.                                        *)
(***************************************************************************)
IsConstructorCall == call.fn = "new StakingScriptData"
IsBuildScriptsCall == call.fn = "buildScripts"
IsBuilderCall ==
    call.fn \in {"buildScripts", "buildUnbondingScript", "buildSlashingScript",
                 "buildDataEmbedScript"}

ErrInvalidScriptData == "Invalid script data provided"

Elements(list) == {list[i] : i \in 1..Len(list)}

\* The staker key is a finality provider key or a covenant key, or some
\* finality provider key is a covenant key.
KeysOverlap(p) ==
    \/ p.stakerKey \in Elements(p.finalityProviderKeys)
    \/ p.stakerKey \in Elements(p.covenantKeys)
    \/ Elements(p.finalityProviderKeys) \cap Elements(p.covenantKeys) # {}

\* C12 (as claimed): when the staker key is among the finality provider
\* keys or the covenant keys, or a finality provider key is among the
\* covenant keys, constructing the StakingScriptData throws the generic
\* invalid-script-data error and buildScripts never returns a script set.
C12_KeyOverlapRejected ==
    (Constructed /\ KeysOverlap(suppliedParams)) =>
        /\ IsConstructorCall => ~ret.ok /\ ret.error = ErrInvalidScriptData
        /\ IsBuildScriptsCall => ~ret.ok

TimelockInRange(t) == t >= 1 /\ t <= 65535

\* C13 (as claimed): when stakingTimelock or unbondingTimelock is outside
\* 1..65535 (0 and 65536 included) constructing the StakingScriptData fails,
\* and no builder returns a script for such parameters.
C13_TimelockRangeRejected ==
    (/\ Constructed
     /\ \/ ~TimelockInRange(suppliedParams.stakingTimeLock)
        \/ ~TimelockInRange(suppliedParams.unbondingTimeLock)) =>
        /\ IsConstructorCall => ~ret.ok
        /\ IsBuilderCall => ~ret.ok

\* C14 (as claimed): when covenantThreshold is below 1 or above the number
\* of covenant keys constructing the StakingScriptData fails, so that no
\* unbonding or slashing script is built with a covenant threshold of 0.
C14_ThresholdRangeRejected ==
    (/\ Constructed
     /\ \/ suppliedParams.covenantThreshold < 1
        \/ suppliedParams.covenantThreshold > Len(suppliedParams.covenantKeys)) =>
        /\ IsConstructorCall => ~ret.ok
        /\ (/\ call.fn \in {"buildScripts", "buildUnbondingScript", "buildSlashingScript"}
            /\ suppliedParams.covenantThreshold = 0) => ~ret.ok

\* A key or the magic bytes of the wrong length.
HasWrongLength(p) ==
    \/ Len(p.stakerKey) # 32
    \/ \E k \in Elements(p.finalityProviderKeys) : Len(k) # 32
    \/ \E k \in Elements(p.covenantKeys) : Len(k) # 32
    \/ Len(p.magicBytes) # 4

\* C15 (as claimed): when the staker key, a finality provider key or a
\* covenant key is not exactly 32 bytes long, or magicBytes is not exactly 4
\* bytes long, constructing the StakingScriptData throws the generic
\* invalid-script-data error.
C15_WrongLengthRejected ==
    (Constructed /\ IsConstructorCall /\ HasWrongLength(suppliedParams)) =>
        ~ret.ok /\ ret.error = ErrInvalidScriptData

\* The outcome of buildScripts on an object freshly built from these
\* parameters.
FreshBuildScripts(p) ==
    LET r == buildScripts(StakingScriptData(p.stakerKey, p.finalityProviderKeys,
                                            p.covenantKeys, p.covenantThreshold,
                                            p.stakingTimeLock, p.unbondingTimeLock,
                                            p.magicBytes))
    IN [ok |-> r.ok, error |-> r.error, scripts |-> r.scripts]

\* C18: buildScripts is deterministic.  Whatever builders were called on
\* the object before, buildScripts returns what it returns on an object
\* freshly built from the same parameters, and two calls of buildScripts in
\* a row on the same object return the same five scripts.
C18_BuildScriptsDeterministic ==
    /\ [](IsBuildScriptsCall => ret = FreshBuildScripts(suppliedParams))
    /\ [][(IsBuildScriptsCall /\ call'.fn = "buildScripts"
             /\ suppliedParams' = suppliedParams) => ret' = ret]_vars

\* buildScripts has succeeded on an object whose finality provider keys
\* were supplied out of order and whose key lists an earlier call sorted.
C18_Witness ==
    /\ IsBuildScriptsCall
    /\ ret.ok
    /\ suppliedParams.finalityProviderKeys
          = <<FinalityProviderKey, SecondFinalityProviderKey>>
    /\ suppliedParams.covenantKeys = CovenantKeys
    /\ scriptData.finalityProviderKeys
          = <<SecondFinalityProviderKey, FinalityProviderKey>>
    /\ scriptData.covenantKeys = <<Key(4, 1), Key(4, 9), Key(5, 1)>>

(***************************************************************************)
(* Properties of the slashing preconditions.                               *)
(***************************************************************************)
\* The error of the parameter check of slashingTransaction.
ErrRateAndFee == "Slashing rate and minimum fee must be bigger than 0"

RateInOpenUnitInterval(rate) == rate[1] > 0 /\ rate[1] < rate[2]

IsPositiveInteger(n) == n[1] > 0 /\ n[1] % n[2] = 0

\* C19 (as claimed): both slashing entry points fail with the invalid rate
\* error (the message "Slashing rate must be between 0 and 1", or the
\* message of the parameter check) whenever slashingRate <= 0 or
\* slashingRate >= 1, exactly 0 and exactly 1 included.
C19_RateOutsideUnitIntervalRejected ==
    (/\ IsSlashCall
     /\ ~RateInOpenUnitInterval(call.slashingRate)
     /\ IsPositiveInteger(call.minimumFee)
     /\ call.outputIndex = 0) =>
        /\ ~ret.ok
        /\ ret.error \in {"Slashing rate must be between 0 and 1", ErrRateAndFee}

\* C20 (as claimed): both slashing entry points fail with the invalid fee
\* error (the message "Minimum fee must be a positve integer", or the
\* message of the parameter check) whenever minimumFee is not a positive
\* integer: when it is <= 0 and when it is not a whole number.
C20_FeeNotPositiveIntegerRejected ==
    (/\ IsSlashCall
     /\ RateInOpenUnitInterval(call.slashingRate)
     /\ ~IsPositiveInteger(call.minimumFee)
     /\ call.outputIndex = 0) =>
        /\ ~ret.ok
        /\ ret.error \in {"Minimum fee must be a positve integer", ErrRateAndFee}

\* The errors that report a bad output index.
OutputIndexErrors ==
    {"Output index must be bigger or equal to 0",
     "Output index must be an integer bigger or equal to 0",
     "Output index is out of range"}

HasValidRateAndFee ==
    RateInOpenUnitInterval(call.slashingRate) /\ IsPositiveInteger(call.minimumFee)

\* C21 (as claimed): both slashing entry points fail with an output index
\* error, and return no transaction, whenever outputIndex is negative or is
\* greater than or equal to the number of outputs of the source transaction.
C21_OutputIndexOutOfRangeRejected ==
    (/\ IsSlashCall
     /\ HasValidRateAndFee
     /\ \/ call.outputIndex < 0
        \/ call.outputIndex >= Len(call.transaction.outs)) =>
        ~ret.ok /\ ret.error \in OutputIndexErrors

ErrNotEnoughFunds == "Not enough funds to slash, stake more"

\* C22 (as claimed): for a slashing rate in (0, 1) and a positive integer
\* minimum fee, both slashing entry points fail with "Not enough funds to
\* slash, stake more" whenever sourceValue - floor(sourceValue *
\* slashingRate) - minimumFee <= 0 for the source output at outputIndex, and
\* no returned slashing transaction has a change output of zero or
\* negative value.
C22_NotEnoughFundsRejected ==
    (/\ IsSlashCall
     /\ HasValidRateAndFee
     /\ call.outputIndex >= 0
     /\ call.outputIndex < Len(call.transaction.outs)) =>
        LET sourceValue == call.transaction.outs[call.outputIndex + 1].value
            remainder == sourceValue - FloorOfProduct(sourceValue, call.slashingRate)
                           - call.minimumFee[1]
        IN /\ remainder <= 0 => ~ret.ok /\ ret.error = ErrNotEnoughFunds
           /\ ret.ok => ret.psbt.outputs[Len(ret.psbt.outputs)].value > 0

(***************************************************************************)
(* Properties of the outputs of the slashing transactions.                 *)
(***************************************************************************)
\* The output created by unbondingTransaction with these scripts, which is
\* what withdrawEarlyUnbondedTransaction spends.
UnbondingOutputAddress(scripts) ==
    P2trAddress(internalPubkey,
                UnbondingTree(scripts.slashingScript, scripts.unbondingTimelockScript))

\* C23 (amended): in both slashing entry points output[1], the staker's
\* change, is the Taproot output of the script tree with the single leaf
\* unbondingTimelockScript under the fixed internal key; that tree has no
\* slashing leaf and the output differs from the output of
\* unbondingTransaction.
C23_ChangeOutputSingleLeafTree ==
    (IsSlashCall /\ ret.ok) =>
        /\ Len(ret.psbt.outputs) = 2
        /\ ret.psbt.outputs[2].address
              = P2trAddress(internalPubkey, Leaf(call.scripts.unbondingTimelockScript))
        /\ ~ScriptPath(ret.psbt.outputs[2].address.scriptTree,
                       call.scripts.slashingScript).found
        /\ ret.psbt.outputs[2].address # UnbondingOutputAddress(call.scripts)

\* C23 (as claimed): output[1] is the Taproot output of the two-leaf tree
\* {slashing, unbondingTimelock}, the tree of the unbonding output.
C23_ChangeOutputTwoLeafTree ==
    (IsSlashCall /\ ret.ok) =>
        ret.psbt.outputs[2].address = UnbondingOutputAddress(call.scripts)

C23_Witness ==
    /\ call.fn = "slashEarlyUnbondedTransaction"
    /\ ret.ok
    /\ hops = 1
    /\ call.transaction.outs[1].script = UnbondingOutputAddress(call.scripts)
    /\ ret.psbt.outputs[2].address.scriptTree
          = Leaf(call.scripts.unbondingTimelockScript)

\* C24: when floor(sourceValue * slashingRate) is positive but below the
\* dust threshold, the slashing transaction is still created, with exactly
\* one output: the change under the unbonding-timelock tree, valued
\* sourceValue - floor(sourceValue * slashingRate) - minimumFee.
C24_DustSlashingOutputOmitted ==
    (/\ IsSlashCall
     /\ HasValidRateAndFee
     /\ 0 <= call.outputIndex
     /\ call.outputIndex < Len(call.transaction.outs)) =>
        LET sourceValue == call.transaction.outs[call.outputIndex + 1].value
            slashed == FloorOfProduct(sourceValue, call.slashingRate)
            remainder == sourceValue - slashed - call.minimumFee[1]
        IN  (slashed > 0 /\ slashed < BTC_DUST_SAT /\ remainder > 0) =>
                /\ ret.ok
                /\ Len(ret.psbt.outputs) = 1
                /\ ret.psbt.outputs[1].address.scriptTree
                      = Leaf(call.scripts.unbondingTimelockScript)
                /\ ret.psbt.outputs[1].value = remainder

(***************************************************************************)
(* Properties of the dust checks of the single-output spenders.            *)
(***************************************************************************)
ErrOutputBelowDust == "Output value is less than dust limit"

\* The value of the prior output the call names, when it names one.
HasSourceOutput(prior, outputIndex) ==
    0 <= outputIndex /\ outputIndex < Len(prior.outs)

\* C25: a withdrawal against a prior output valued exactly at the dust
\* threshold fails with the Output-Below-Dust error, for every feeRate > 0.
C25_WithdrawalAtDustRejected ==
    (/\ IsWithdrawCall
     /\ call.feeRate > 0
     /\ HasSourceOutput(call.tx, call.outputIndex)
     /\ call.tx.outs[call.outputIndex + 1].value = BTC_DUST_SAT) =>
        ~ret.ok /\ ret.error = ErrOutputBelowDust

\* C26: in unbondingTransaction and the two withdrawals, an output value
\* inputValue - fee below the dust threshold is rejected with the dust
\* error, and no returned transaction has an output valued below it.
C26_OutputBelowDustRejected ==
    /\ (/\ IsUnbondingCall
        /\ call.transactionFee > 0
        /\ HasSourceOutput(call.stakingTx, call.outputIndex)
        /\ call.stakingTx.outs[call.outputIndex + 1].value - call.transactionFee
              < BTC_DUST_SAT) =>
           ~ret.ok /\ ret.error = ErrOutputBelowDust
    /\ (/\ IsWithdrawCall
        /\ call.feeRate > 0
        /\ HasSourceOutput(call.tx, call.outputIndex)
        /\ ParseTimelock(IF call.fn = "withdrawEarlyUnbondedTransaction"
                         THEN call.scripts.unbondingTimelockScript
                         ELSE call.scripts.timelockScript).ok
        /\ call.tx.outs[call.outputIndex + 1].value - WithdrawalFee(call.feeRate, 1)
              < BTC_DUST_SAT) =>
           ~ret.ok /\ ret.error = ErrOutputBelowDust
    /\ ((IsUnbondingCall \/ IsWithdrawCall) /\ ret.ok) =>
           \A i \in 1..Len(ret.psbt.outputs) :
               ret.psbt.outputs[i].value >= BTC_DUST_SAT

(***************************************************************************)
(* Properties of the lock height and of the caller's UTXO list.            *)
(***************************************************************************)
ErrInvalidLockHeight == "Invalid lock height"

\* The preconditions of stakingTransaction other than the lock height: the
\* parameter checks pass and the wallet covers the amount and the fee.
OtherStakingPreconditionsMet ==
    /\ call.amount > 0 /\ call.feeRate > 0
    /\ IsValidAddress(call.changeAddress)
    /\ call.publicKeyNoCoord # Undefined => Len(call.publicKeyNoCoord) = PK_LENGTH
    /\ getStakingTxInputUTXOsAndFees(
           call.inputUTXOs, call.amount, call.feeRate,
           IF call.scripts.dataEmbedScript # Undefined THEN 3 ELSE 2).ok

C28_AvailableUTXOsUnchanged ==
    /\ IsSelectCall => availableUTXOs = call.availableUTXOs
    /\ IsStakingCall => availableUTXOs = call.inputUTXOs

(***************************************************************************)
(* Properties of the order of the key lists of a StakingScriptData.        *)
(***************************************************************************)
\* The data embed script of an object holding the parameters as supplied:
\* it embeds the first finality provider key in the caller's order.
DataEmbedOfSupplied(p) == buildDataEmbedScript(p).script

\* C29: the data embed script always embeds the first finality provider key
\* in the order supplied by the caller, whether buildDataEmbedScript is
\* called before or after buildSlashingScript / buildScripts on the object,
\* and the finalityProviderKeys and covenantKeys lists keep their supplied
\* order after any sequence of build calls.
C29_DataEmbedUsesSuppliedOrder ==
    Constructed =>
        /\ scriptData.finalityProviderKeys = suppliedParams.finalityProviderKeys
        /\ scriptData.covenantKeys = suppliedParams.covenantKeys
        /\ (call.fn = "buildDataEmbedScript" /\ ret.ok) =>
              ret.script = DataEmbedOfSupplied(suppliedParams)
        /\ (IsBuildScriptsCall /\ ret.ok) =>
              ret.scripts.dataEmbedScript = DataEmbedOfSupplied(suppliedParams)

(***************************************************************************)
(* Properties of the script trees of the creation and spending paths.      *)
(***************************************************************************)
\* The output created by stakingTransaction (and buildStakingOutput) with
\* these scripts.
StakingOutputAddress(scripts) ==
    P2trAddress(internalPubkey,
                StakingTree(scripts.slashingScript, scripts.unbondingScript,
                            scripts.timelockScript))

\* The spenders of the staking output and those of the unbonding output.
SpendsStakingOutput ==
    call.fn \in {"unbondingTransaction", "withdrawTimelockUnbondedTransaction",
                 "slashTimelockUnbondedTransaction"}
SpendsUnbondingOutput ==
    call.fn \in {"withdrawEarlyUnbondedTransaction", "slashEarlyUnbondedTransaction"}

\* The output a spender is written for, and the leaf of its own path.
SpentOutputAddress ==
    IF SpendsStakingOutput THEN StakingOutputAddress(call.scripts)
    ELSE UnbondingOutputAddress(call.scripts)

OwnLeafScript ==
    CASE call.fn = "unbondingTransaction" -> call.scripts.unbondingScript
      [] call.fn = "withdrawTimelockUnbondedTransaction" -> call.scripts.timelockScript
      [] call.fn = "withdrawEarlyUnbondedTransaction" ->
            call.scripts.unbondingTimelockScript
      [] OTHER -> call.scripts.slashingScript

\* The prior transaction of a spending call.
PriorOfCall ==
    CASE IsUnbondingCall -> call.stakingTx
      [] IsWithdrawCall -> call.tx
      [] OTHER -> call.transaction

\* C30: creation and spending use the same script tree for the same output.
\* The staking output is derived from [slashing, [unbonding, timelock]],
\* the tree from which unbondingTransaction, the timelock withdrawal and the
\* timelock slashing derive their leaf and control block; the output of
\* unbondingTransaction is derived from [slashing, unbondingTimelock], the
\* tree used by the early withdrawal and the early slashing; each spender
\* reveals the leaf of its own path, and when the output it spends was
\* created with its scripts the control block is a path of the very tree
\* that output commits to.
C30_SameTreeForCreationAndSpending ==
    /\ hops = 0 =>
          /\ tx.outs[1].script = StakingOutputAddress(BaseScripts)
          /\ tx = StakingTxOf(BaseScripts, tx.outs[1].value)
                \/ tx = StakingTxOf(WithoutDataEmbed(BaseScripts), tx.outs[1].value)
    /\ hops > 0 => tx.outs[1].script = UnbondingOutputAddress(BaseScripts)
    /\ (IsUnbondingCall /\ ret.ok) =>
          ret.psbt.outputs[1].address = UnbondingOutputAddress(call.scripts)
    /\ ((SpendsStakingOutput \/ SpendsUnbondingOutput) /\ ret.ok) =>
          LET input == ret.psbt.inputs[1]
              leaf == input.tapLeafScript[1]
          IN /\ Len(ret.psbt.inputs) = 1
             /\ Len(input.tapLeafScript) = 1
             /\ input.tapInternalKey = SpentOutputAddress.internalPubkey
             /\ leaf.script = OwnLeafScript
             /\ ScriptPath(SpentOutputAddress.scriptTree, OwnLeafScript).found
             /\ leaf.controlBlock
                   = ControlBlock(internalPubkey, SpentOutputAddress.scriptTree,
                                  OwnLeafScript)
             /\ PriorOfCall.outs[1].script = SpentOutputAddress =>
                   leaf.controlBlock
                      = ControlBlock(PriorOfCall.outs[1].script.internalPubkey,
                                     PriorOfCall.outs[1].script.scriptTree,
                                     leaf.script)

\* The unbonding output created from a staking output has been spent by the
\* early withdrawal, after the staking output was spent by unbonding.
C30_Witness ==
    /\ hops = 1
    /\ call.fn = "withdrawEarlyUnbondedTransaction"
    /\ ret.ok
    /\ call.tx.outs[1].script = UnbondingOutputAddress(call.scripts)
    /\ ret.psbt.inputs[1].witnessUtxo.script = UnbondingOutputAddress(call.scripts)
    /\ ret.psbt.inputs[1].tapLeafScript[1].controlBlock.path
          = <<Leaf(call.scripts.slashingScript)>>

====
